---- MODULE Spec2Model ----
(***************************************************************************)
(* A model of the FreeRouter / ClawRouter proxy: the chat-completions      *)
(* request lifecycle (validation, prompt extraction, mode override,        *)
(* classification, fallback loop), the Anthropic stream translator and     *)
(* the OpenAI pass-through.                                                *)
(*                                                                         *)
(* Text is modelled as a sequence of one-character strings, so slicing,    *)
(* trimming, joining and regular-expression prefixes are computed the way  *)
(* the JavaScript computes them.                                           *)
(***************************************************************************)
EXTENDS Integers, Sequences, FiniteSets, TLC

\* ------------------------------------------------------------------ bounds

\* Longest messages list a modelled request carries.
MaxMsgs == 2
\* Most chunks one upstream stream delivers inside the request lifecycle.
MaxReads == 2
\* Most lines the stand-alone stream translator is fed.
MaxStreamLen == 5
\* Longest messages list the stand-alone context extractor is given.
MaxExtractMsgs == 4
\* Most reload calls the server is sent.
MaxReloads == 1

\* The absent value: undefined / null of the source.
Null == "null"

\* -------------------------------------------------------------------- text

LowerSeq ==
  << "a", "b", "c", "d", "e", "f", "g", "h", "i", "j", "k", "l", "m",
     "n", "o", "p", "q", "r", "s", "t", "u", "v", "w", "x", "y", "z" >>

UpperSeq ==
  << "A", "B", "C", "D", "E", "F", "G", "H", "I", "J", "K", "L", "M",
     "N", "O", "P", "Q", "R", "S", "T", "U", "V", "W", "X", "Y", "Z" >>

Range(s) == { s[i] : i \in DOMAIN s }

\* [a-z] under the i flag.
Letters == Range(LowerSeq) \cup Range(UpperSeq)

\* \s of the regular expressions, and the characters trim() removes.
Whitespace == { " ", "\t", "\n" }

\* String.prototype.toLowerCase, one character.
toLowerChar(c) ==
  IF c \in Range(UpperSeq)
    THEN LowerSeq[CHOOSE i \in DOMAIN UpperSeq : UpperSeq[i] = c]
    ELSE c

toLowerCase(s) == [ i \in DOMAIN s |-> toLowerChar(s[i]) ]

toUpperChar(c) ==
  IF c \in Range(LowerSeq)
    THEN UpperSeq[CHOOSE i \in DOMAIN LowerSeq : LowerSeq[i] = c]
    ELSE c

toUpperCase(s) == [ i \in DOMAIN s |-> toUpperChar(s[i]) ]

\* String.prototype.slice(n): the text from 0-based offset n on.
slice(s, n) == SubSeq(s, n + 1, Len(s))

\* String.prototype.slice(0, n).
sliceTo(s, n) == SubSeq(s, 1, IF n < Len(s) THEN n ELSE Len(s))

\* Length of the longest run of characters of set cs that starts at the
\* 1-based position from: what a greedy cs+ or cs* consumes there.
RECURSIVE RunLen(_, _, _)
RunLen(s, from, cs) ==
  IF from <= Len(s) /\ s[from] \in cs
    THEN 1 + RunLen(s, from + 1, cs)
    ELSE 0

\* String.prototype.trim.
trim(s) ==
  LET lead == RunLen(s, 1, Whitespace)
      rest == slice(s, lead)
      RECURSIVE TrailLen(_)
      TrailLen(k) == IF k >= 1 /\ rest[k] \in Whitespace
                       THEN 1 + TrailLen(k - 1) ELSE 0
  IN  SubSeq(rest, 1, Len(rest) - TrailLen(Len(rest)))

\* Array.prototype.join("\n") over a sequence of texts.
RECURSIVE joinNewline(_)
joinNewline(parts) ==
  IF Len(parts) = 0 THEN << >>
  ELSE IF Len(parts) = 1 THEN parts[1]
  ELSE parts[1] \o << "\n" >> \o joinNewline(Tail(parts))

\* ----------------------------------------------------------- mode override

Tiers == { "SIMPLE", "MEDIUM", "COMPLEX", "REASONING" }

W_simple      == << "s", "i", "m", "p", "l", "e" >>
W_basic       == << "b", "a", "s", "i", "c" >>
W_cheap       == << "c", "h", "e", "a", "p" >>
W_medium      == << "m", "e", "d", "i", "u", "m" >>
W_balanced    == << "b", "a", "l", "a", "n", "c", "e", "d" >>
W_complex     == << "c", "o", "m", "p", "l", "e", "x" >>
W_advanced    == << "a", "d", "v", "a", "n", "c", "e", "d" >>
W_max         == << "m", "a", "x" >>
W_reasoning   == << "r", "e", "a", "s", "o", "n", "i", "n", "g" >>
W_think       == << "t", "h", "i", "n", "k" >>
W_deep        == << "d", "e", "e", "p" >>
W_mode        == << "m", "o", "d", "e" >>
W_constructor == << "c", "o", "n", "s", "t", "r", "u", "c", "t", "o", "r" >>
W_fast        == << "f", "a", "s", "t" >>

\* The own properties of the modeMap object literal.
modeMap ==
  ( W_simple    :> "SIMPLE" )    @@ ( W_basic    :> "SIMPLE" )  @@
  ( W_cheap     :> "SIMPLE" )    @@ ( W_medium   :> "MEDIUM" )  @@
  ( W_balanced  :> "MEDIUM" )    @@ ( W_complex  :> "COMPLEX" ) @@
  ( W_advanced  :> "COMPLEX" )   @@ ( W_max      :> "REASONING" ) @@
  ( W_reasoning :> "REASONING" ) @@ ( W_think    :> "REASONING" ) @@
  ( W_deep      :> "REASONING" )

\* What the tier of an override is when the key came from Object.prototype:
\* the Object constructor function, which is no string.
ObjectFunction == "[Function: Object]"

\* modeMap[mode] of the source: a property read on a plain object literal.
\* It yields the own property, else what the key names on Object.prototype;
\* of those names only "constructor" can equal a lower-cased [a-z]+ word.
\* Null stands for undefined.
modeMapGet(mode) ==
  IF mode \in DOMAIN modeMap THEN modeMap[mode]
  ELSE IF mode = W_constructor THEN ObjectFunction
  ELSE Null

\* A regular expression that did not match.
NoMatch == [ ok |-> FALSE ]

\* prompt.match(/^\/([a-z]+)\s+/i): the captured word and the length of the
\* whole match.
slashMatch(prompt) ==
  LET w  == RunLen(prompt, 2, Letters)
      ws == RunLen(prompt, 2 + w, Whitespace)
  IN  IF Len(prompt) >= 1 /\ prompt[1] = "/" /\ w >= 1 /\ ws >= 1
        THEN [ ok |-> TRUE, word |-> SubSeq(prompt, 2, 1 + w),
               len |-> 1 + w + ws ]
        ELSE NoMatch

\* prompt.match(/^([a-z]+)\s+mode[:\s,]+/i).
prefixMatch(prompt) ==
  LET w   == RunLen(prompt, 1, Letters)
      ws  == RunLen(prompt, 1 + w, Whitespace)
      m   == 1 + w + ws
      sep == RunLen(prompt, m + 4, Whitespace \cup { ":", "," })
  IN  IF /\ w >= 1 /\ ws >= 1
         /\ Len(prompt) >= m + 3
         /\ toLowerCase(SubSeq(prompt, m, m + 3)) = W_mode
         /\ sep >= 1
        THEN [ ok |-> TRUE, word |-> SubSeq(prompt, 1, w),
               len |-> w + ws + 4 + sep ]
        ELSE NoMatch

\* prompt.match(/^\[([a-z]+)\]\s*/i).
bracketMatch(prompt) ==
  LET w  == RunLen(prompt, 2, Letters)
      ws == RunLen(prompt, 3 + w, Whitespace)
  IN  IF /\ Len(prompt) >= 1 /\ prompt[1] = "[" /\ w >= 1
         /\ Len(prompt) >= 2 + w /\ prompt[2 + w] = "]"
        THEN [ ok |-> TRUE, word |-> SubSeq(prompt, 2, 1 + w),
               len |-> 2 + w + ws ]
        ELSE NoMatch

\* detectModeOverride returning null.
NoOverride == [ ok |-> FALSE ]

\* One pattern of detectModeOverride: the override it returns, or NoOverride
\* when the pattern does not match or modeMap[mode] is not truthy.
overrideOf(prompt, m) ==
  IF ~ m.ok THEN NoOverride
  ELSE LET mode == toLowerCase(m.word) IN
       IF modeMapGet(mode) # Null
         THEN [ ok |-> TRUE, tier |-> modeMapGet(mode),
                cleanedPrompt |-> trim(slice(prompt, m.len)) ]
         ELSE NoOverride

\* detectModeOverride: the three patterns in order, the first that yields.
detectModeOverride(prompt) ==
  IF overrideOf(prompt, slashMatch(prompt)).ok
    THEN overrideOf(prompt, slashMatch(prompt))
  ELSE IF overrideOf(prompt, prefixMatch(prompt)).ok
    THEN overrideOf(prompt, prefixMatch(prompt))
  ELSE overrideOf(prompt, bracketMatch(prompt))

\* ----------------------------------------------------- messages and prompt

\* const contextWindow = 3: the last N non-system messages are the context.
contextWindow == 3
\* msg.text.slice(0, 500): the cut applied to a context message.
ContextCut == 500

Roles == { "system", "user", "assistant", "tool" }

T_hi  == << "h", "i" >>
T_max == << "/", "m", "a", "x", " ", "g", "o" >>

\* A front message: its role and its content, a string or null (as an
\* assistant turn that only calls tools, or a tool turn, may carry).
StringMsg(r, t) == [ role |-> r, kind |-> "string", text |-> t ]
NullMsg(r)      == [ role |-> r, kind |-> "null",   text |-> << >> ]
\* An assistant turn with tool_calls and null content.
ToolCallsMsg    == [ role |-> "assistant", kind |-> "tool_calls", text |-> << >> ]
\* A tool turn that names the call it answers.
ToolMsg(id, t)  == [ role |-> "tool", kind |-> "string", text |-> t,
                     tool_call_id |-> id ]

\* The text extractPromptForClassification reads off one message:
\* the string itself, else the text parts of (msg.content ?? []) joined.
textOf(msg) == IF msg.kind = "string" THEN msg.text ELSE << >>

isSystem(msg) == msg.role \in { "system", "developer" }

\* The system prompt: undefined, or the system texts joined by newlines.
\* A falsy (empty) accumulated prompt is replaced, not extended.
RECURSIVE systemPromptOf(_, _)
systemPromptOf(messages, acc) ==
  IF Len(messages) = 0 THEN acc
  ELSE LET msg == Head(messages) IN
       systemPromptOf(Tail(messages),
         IF isSystem(msg)
           THEN [ defined |-> TRUE,
                  text |-> (IF acc.defined /\ Len(acc.text) > 0
                              THEN acc.text \o << "\n" >> ELSE << >>)
                           \o textOf(msg) ]
           ELSE acc)

\* conversationMsgs: the non-system messages as {role, text}.
conversationMsgs(messages) ==
  LET keep(m) == ~ isSystem(m)
      conv    == SelectSeq(messages, keep)
  IN  [ i \in DOMAIN conv |-> [ role |-> conv[i].role, text |-> textOf(conv[i]) ] ]

\* Array.prototype.slice(-n).
lastN(seq, n) ==
  IF Len(seq) <= n THEN seq ELSE SubSeq(seq, Len(seq) - n + 1, Len(seq))

\* recentMsgs.filter(m => m.role === "user").pop()?.text ?? "".
lastUserMsg(recentMsgs) ==
  LET isUser(m) == m.role = "user"
      users     == SelectSeq(recentMsgs, isUser)
  IN  IF Len(users) = 0 THEN << >> ELSE users[Len(users)].text

\* contextParts: every recent message whose text differs from the last
\* user text, cut to ContextCut characters.
contextParts(recentMsgs) ==
  LET last       == lastUserMsg(recentMsgs)
      differs(m) == m.text # last
      ctx        == SelectSeq(recentMsgs, differs)
  IN  [ i \in DOMAIN ctx |-> sliceTo(ctx[i].text, ContextCut) ]

extractPromptForClassification(messages) ==
  LET recentMsgs == lastN(conversationMsgs(messages), contextWindow)
      parts      == contextParts(recentMsgs)
      last       == lastUserMsg(recentMsgs)
  IN  [ prompt |-> IF Len(parts) > 0
                     THEN joinNewline(parts) \o << "\n" >> \o last
                     ELSE last,
        systemPrompt |-> systemPromptOf(messages, [ defined |-> FALSE, text |-> << >> ]) ]

\* ------------------------------------------------------ models and routing

Opus   == "anthropic/claude-opus-4-6"
Sonnet == "anthropic/claude-sonnet-4-5"
Haiku  == "anthropic/claude-haiku-4-5"
Kimi   == "kimi-coding/kimi-for-coding"
\* Model ids a caller may name that no tier table holds.
Gpt4o     == "openai/gpt-4o"
BareHaiku == "claude-haiku-4-5"
\* A model id whose prefix names a member every JavaScript object inherits.
ProtoModel == "constructor/model"

\* The sentinels that ask for classification.
AutoModels == { "auto", "clawrouter/auto", "blockrun/auto" }

ModelIds == { Opus, Sonnet, Haiku, Kimi, Gpt4o, BareHaiku, ProtoModel }

\* parseModelId: the id cut at its first "/"; an id without one is an
\* Anthropic model.
parseModelId(modelId) ==
  CASE modelId = Opus      -> [ provider |-> "anthropic",   model |-> "claude-opus-4-6" ]
    [] modelId = Sonnet    -> [ provider |-> "anthropic",   model |-> "claude-sonnet-4-5" ]
    [] modelId = Haiku     -> [ provider |-> "anthropic",   model |-> "claude-haiku-4-5" ]
    [] modelId = Kimi      -> [ provider |-> "kimi-coding", model |-> "kimi-for-coding" ]
    [] modelId = Gpt4o     -> [ provider |-> "openai",      model |-> "gpt-4o" ]
    [] modelId = BareHaiku -> [ provider |-> "anthropic",   model |-> "claude-haiku-4-5" ]
    [] modelId = ProtoModel -> [ provider |-> "constructor", model |-> "model" ]

\* PROVIDERS: the hard-coded provider table, by api.
PROVIDERS ==
  [ p \in { "anthropic", "kimi-coding" } |->
      IF p = "anthropic" THEN "anthropic-messages" ELSE "openai-completions" ]

\* The member names PROVIDERS, an object literal, inherits from
\* Object.prototype, as far as a model id's prefix is one of them.
InheritedKeys == { "constructor" }

\* A registry in which every prefix is an OpenAI-compatible provider.
providerConfig_any(provider) ==
  IF provider \in DOMAIN PROVIDERS
    THEN [ ok |-> TRUE, api |-> PROVIDERS[provider], baseUrl |-> TRUE ]
    ELSE [ ok |-> TRUE, api |-> "openai-completions", baseUrl |-> TRUE ]

\* PROVIDERS[provider] as forwardRequest and the forwarders see it: an entry
\* of the table, or an inherited member (truthy, with neither api nor
\* baseUrl), or undefined.
providerConfig(provider) ==
  IF provider \in DOMAIN PROVIDERS
    THEN [ ok |-> TRUE, api |-> PROVIDERS[provider], baseUrl |-> TRUE ]
  ELSE IF provider \in InheritedKeys
    THEN [ ok |-> TRUE, api |-> Null, baseUrl |-> FALSE ]
  ELSE [ ok |-> FALSE, api |-> Null, baseUrl |-> FALSE ]

\* `clawrouter/${modelName}`: the model field of what the client is sent.
Namespace == "clawrouter"
namespaced(modelName) == << Namespace, modelName >>

\* DEFAULT_ROUTING_CONFIG.tiers and .agenticTiers.
DefaultTiers ==
  [ t \in Tiers |->
      CASE t = "SIMPLE"    -> [ primary |-> Kimi,   fallback |-> << Haiku >> ]
        [] t = "MEDIUM"    -> [ primary |-> Sonnet, fallback |-> << Opus >> ]
        [] t = "COMPLEX"   -> [ primary |-> Opus,   fallback |-> << Haiku >> ]
        [] t = "REASONING" -> [ primary |-> Opus,   fallback |-> << Haiku >> ] ]

DefaultAgenticTiers == DefaultTiers

\* ------------------------------------------------- configuration, credentials

VARIABLES
  configFile,    \* the config file on disk: none, custom, or one that does not parse
  activeConfig,  \* _config: the active configuration
  authFile,      \* the providers auth-profiles.json on disk has a credential for
  authLoaded,    \* whether authCache is set
  adminLog       \* every reload call, with the configuration before and after it

cfgVars == << configFile, activeConfig, authFile, authLoaded, adminLog >>

\* DEFAULT_CONFIG, as far as routing reads it; path is _configPath.
DEFAULT_CONFIG ==
  [ path |-> Null, tiers |-> DefaultTiers, agenticTiers |-> DefaultAgenticTiers ]

\* A config file an operator may write: the MEDIUM row of the base table
\* gets a fallback list that names a model twice, its SIMPLE row a fallback
\* of a provider the registry does not hold, its COMPLEX row is null, the
\* MEDIUM row of the agentic table gets another primary and another
\* fallback. The rows a file sets to null are named apart from the rows it
\* gives fields of.
CustomFile ==
  [ tiers        |-> [ t \in { "SIMPLE", "MEDIUM" } |->
                         IF t = "MEDIUM" THEN [ fallback |-> << Haiku, Haiku >> ]
                                         ELSE [ fallback |-> << Gpt4o >> ] ],
    tiersNull    |-> { "COMPLEX" },
    agenticNull  |-> { },
    agenticTiers |-> [ t \in { "MEDIUM" } |->
                         [ primary |-> Opus, fallback |-> << Sonnet >> ] ] ]

ConfigFiles == { "none", "custom", "broken" }

\* deepMerge of one row of a tier table: the source's fields win, arrays
\* are replaced.
mergeRow(tv, sv) ==
  [ primary  |-> IF "primary"  \in DOMAIN sv THEN sv.primary  ELSE tv.primary,
    fallback |-> IF "fallback" \in DOMAIN sv THEN sv.fallback ELSE tv.fallback ]

\* deepMerge of a tier table. A row the source sets to null is null in the
\* result: the table has no entry for that tier, and a lookup of it yields
\* nothing to read a field of.
mergeTable(target, source, nulls) ==
  [ t \in Tiers \ nulls |->
      IF t \in DOMAIN source THEN mergeRow(target[t], source[t]) ELSE target[t] ]

\* deepMerge(DEFAULT_CONFIG, fileConfig).
deepMerge(target, source) ==
  [ target EXCEPT !.tiers = mergeTable(@, source.tiers, source.tiersNull),
                  !.agenticTiers = mergeTable(@, source.agenticTiers, source.agenticNull) ]

\* loadConfig(): the defaults when there is no file or the file does not
\* parse, else the file merged over the defaults.
loadConfig(file) ==
  CASE file = "none"   -> DEFAULT_CONFIG
    [] file = "broken" -> DEFAULT_CONFIG
    [] file = "custom" -> [ deepMerge(DEFAULT_CONFIG, CustomFile) EXCEPT !.path = "freerouter.config.json" ]

\* reloadConfig(): _config = null; return loadConfig().
reloadConfig(file) == loadConfig(file)

\* DEFAULT_ROUTING_CONFIG.overrides.
DefaultOverrides ==
  [ maxTokensForceComplex   |-> 100000,
    structuredOutputMinTier |-> "MEDIUM",
    ambiguousDefaultTier    |-> "MEDIUM",
    agenticMode             |-> FALSE ]

\* getRoutingConfig(): the defaults, overridden by the active
\* configuration's tables.
getRoutingConfig ==
  [ tiers |-> activeConfig.tiers, agenticTiers |-> activeConfig.agenticTiers,
    overrides |-> DefaultOverrides ]

\* JavaScript numbers, as far as selectModel needs them: a finite value, an
\* infinity of either sign, or NaN. Finite values are integers; costs are in
\* millionths of the price unit (tokens * price), and a quotient is kept as
\* numerator over denominator.
Num(v)      == [ k |-> "fin",  v |-> v ]
Infinity    == [ k |-> "inf",  v |-> 0 ]
NegInfinity == [ k |-> "ninf", v |-> 0 ]
NaN         == [ k |-> "nan",  v |-> 0 ]

\* a * b, for a and b not negative.
times(a, b) ==
  CASE a.k = "nan" \/ b.k = "nan"                        -> NaN
    [] a.k = "fin" /\ b.k = "fin"                        -> Num(a.v * b.v)
    [] (a.k = "fin" /\ a.v = 0) \/ (b.k = "fin" /\ b.v = 0) -> NaN
    [] OTHER                                             -> Infinity

\* a + b, for a and b not negative.
plus(a, b) ==
  CASE a.k = "nan" \/ b.k = "nan" -> NaN
    [] a.k = "fin" /\ b.k = "fin" -> Num(a.v + b.v)
    [] OTHER                       -> Infinity

\* a - b, for a and b not negative.
minus(a, b) ==
  CASE a.k = "nan" \/ b.k = "nan" -> NaN
    [] a.k = "fin" /\ b.k = "fin" -> Num(a.v - b.v)
    [] a.k = "inf" /\ b.k = "inf" -> NaN
    [] a.k = "inf"                 -> Infinity
    [] OTHER                       -> NegInfinity

\* a > 0
positive(a) == a.k = "inf" \/ (a.k = "fin" /\ a.v > 0)

Ratio(n, d) == [ k |-> "fin", num |-> n, den |-> d ]
RatioNaN    == [ k |-> "nan", num |-> 0, den |-> 1 ]
RatioInf    == [ k |-> "inf", num |-> 0, den |-> 1 ]

\* a / b, for b > 0.
over(a, b) ==
  CASE a.k = "nan"                 -> RatioNaN
    [] a.k = "fin" /\ b.k = "fin" -> Ratio(a.v, b.v)
    [] a.k = "fin"                 -> Ratio(0, 1)
    [] b.k = "fin"                 -> IF a.k = "inf" THEN RatioInf ELSE Ratio(-1, 0)
    [] OTHER                       -> RatioNaN

\* Math.max(0, q): NaN when q is NaN.
mathMax0(q) ==
  CASE q.k = "nan"                -> RatioNaN
    [] q.k = "inf"                -> RatioInf
    [] q.num < 0                  -> Ratio(0, 1)
    [] OTHER                      -> q

\* pricing?.inputPrice ?? dflt and pricing?.outputPrice ?? dflt
inputPriceOf(modelPricing, model, dflt) ==
  IF model \in DOMAIN modelPricing THEN modelPricing[model].inputPrice ELSE dflt
outputPriceOf(modelPricing, model, dflt) ==
  IF model \in DOMAIN modelPricing THEN modelPricing[model].outputPrice ELSE dflt

\* The prices of the baseline model when it has no price entry.
OpusInputDefault  == 15
OpusOutputDefault == 75

\* selectModel: the primary of the chosen table's row, with the decision's
\* tier, confidence, method and reasoning, and the cost figures.
\* tierConfig.primary throws a TypeError when the table has no row for the
\* tier.
selectModel(tier, confidence, method, reasoning, tierConfigs, modelPricing, estimatedInputTokens, maxOutputTokens) ==
  IF tier \in DOMAIN tierConfigs
    THEN
      LET model        == tierConfigs[tier].primary
          inputPrice   == inputPriceOf(modelPricing, model, 0)
          outputPrice  == outputPriceOf(modelPricing, model, 0)
          inputCost    == times(estimatedInputTokens, Num(inputPrice))
          outputCost   == times(maxOutputTokens, Num(outputPrice))
          costEstimate == plus(inputCost, outputCost)
          opusInputPrice  == inputPriceOf(modelPricing, Opus, OpusInputDefault)
          opusOutputPrice == outputPriceOf(modelPricing, Opus, OpusOutputDefault)
          baselineInput  == times(estimatedInputTokens, Num(opusInputPrice))
          baselineOutput == times(maxOutputTokens, Num(opusOutputPrice))
          baselineCost   == plus(baselineInput, baselineOutput)
          savings == IF positive(baselineCost)
                       THEN mathMax0(over(minus(baselineCost, costEstimate),
                                          baselineCost))
                       ELSE Ratio(0, 1)
      IN [ threw |-> FALSE, model |-> model, tier |-> tier,
           confidence |-> confidence, method |-> method, reasoning |-> reasoning,
           costEstimate |-> costEstimate, baselineCost |-> baselineCost,
           savings |-> savings ]
    ELSE [ threw |-> TRUE, model |-> Null, tier |-> tier,
           confidence |-> confidence, method |-> method, reasoning |-> reasoning,
           costEstimate |-> NaN, baselineCost |-> NaN, savings |-> RatioNaN ]

\* Math.ceil(length / 4).
estimateTokens(length) == (length + 3) \div 4

\* `${systemPrompt ?? ""} ${prompt}`.length
totalLength(prompt, systemPrompt) ==
  (IF systemPrompt.defined THEN Len(systemPrompt.text) ELSE 0) + 1 + Len(prompt)

\* String.prototype.includes, on texts in one letter case.
includes(text, word) ==
  \E i \in 1 .. (Len(text) - Len(word) + 1) :
    SubSeq(text, i, i + Len(word) - 1) = word

W_json       == << "j", "s", "o", "n" >>
W_structured == << "s", "t", "r", "u", "c", "t", "u", "r", "e", "d" >>
W_schema     == << "s", "c", "h", "e", "m", "a" >>

\* /json|structured|schema/i.test(text)
testStructured(text) ==
  \E w \in { W_json, W_structured, W_schema } : includes(toLowerCase(text), w)

\* A detector that reads the system prompt, if there is one, not the prompt.
hasStructuredOutput_system(prompt, systemPrompt) ==
  IF systemPrompt.defined /\ Len(systemPrompt.text) > 0
    THEN testStructured(systemPrompt.text) ELSE FALSE

\* hasStructuredOutput of route(): the test is on the user prompt.
hasStructuredOutput(prompt, systemPrompt) == testStructured(prompt)

tierRank ==
  [ t \in Tiers |->
      CASE t = "SIMPLE" -> 0 [] t = "MEDIUM" -> 1 [] t = "COMPLEX" -> 2
        [] t = "REASONING" -> 3 ]

\* agenticScore >= 0.69, with scores in hundredths.
AgenticThreshold == 69

\* The scorer's part of a decision's reasoning (score and signals).
RulesSummary == "rules"

\* route(prompt, systemPrompt, maxOutputTokens, options), given the result
\* of classifyByRules: its tier (or null) and its agenticScore.
route(prompt, systemPrompt, maxOutputTokens, options, ruleResult) ==
  LET config               == options.config
      estimatedTotalTokens == estimateTokens(totalLength(prompt, systemPrompt))
      isAutoAgentic        == ruleResult.agenticScore >= AgenticThreshold
      isExplicitAgentic    == config.overrides.agenticMode
      useAgenticTiers      == isAutoAgentic \/ isExplicitAgentic
      tierConfigs          == IF useAgenticTiers THEN config.agenticTiers
                                                 ELSE config.tiers
      ambiguous            == ruleResult.tier = Null
      classifiedTier       == IF ambiguous THEN config.overrides.ambiguousDefaultTier
                                           ELSE ruleResult.tier
      minTier              == config.overrides.structuredOutputMinTier
      upgraded             == /\ hasStructuredOutput(prompt, systemPrompt)
                              /\ tierRank[classifiedTier] < tierRank[minTier]
      tier                 == IF upgraded THEN minTier ELSE classifiedTier
      reasoning ==
        RulesSummary
        \o (IF ambiguous THEN " | ambiguous -> default: " \o classifiedTier ELSE "")
        \o (IF upgraded THEN " | upgraded to " \o minTier \o " (structured output)"
                         ELSE "")
        \o (IF isAutoAgentic THEN " | auto-agentic"
            ELSE IF isExplicitAgentic THEN " | agentic" ELSE "")
  IN
  IF estimatedTotalTokens > config.overrides.maxTokensForceComplex
    THEN selectModel("COMPLEX", 95, "rules",
                     "Input exceeds limit" \o (IF useAgenticTiers THEN " | agentic" ELSE ""),
                     tierConfigs, options.modelPricing,
                     Num(estimatedTotalTokens), maxOutputTokens)
    ELSE selectModel(tier, IF ambiguous THEN 50 ELSE ruleResult.confidence, "rules",
                     reasoning, tierConfigs, options.modelPricing,
                     Num(estimatedTotalTokens), maxOutputTokens)

\* The chain of the fallback loop: the routed model, then the fallbacks of
\* the base table's row for the tier, the routed model left out.
modelsToTryOf(routedModel, tier, config) ==
  IF tier = "EXPLICIT" THEN << routedModel >>
  ELSE IF tier \notin DOMAIN config.tiers THEN << routedModel >>
  ELSE LET other(m) == m # routedModel
       IN  << routedModel >> \o SelectSeq(config.tiers[tier].fallback, other)

\* -------------------------------------------- Anthropic request conversion

\* JSON.stringify(msg.content ?? "") of a null content: the two characters "".
EmptyJsonString == << "\"", "\"" >>

\* One message of the Anthropic list: flat text, or a user message made of
\* tool_result blocks.
TextOut(r, t)      == [ role |-> r, kind |-> "text", text |-> t, results |-> << >> ]
ToolResultsOut(rs) == [ role |-> "user", kind |-> "tool_results", text |-> << >>, results |-> rs ]

\* An assistant message made of content blocks: the tool_use blocks of a turn
\* with tool_calls, after its text if it has one.
ToolUseOut(t)      == [ role |-> "assistant", kind |-> "tool_use", text |-> t, results |-> << >> ]

\* The tool_result block of a tool message.
toolResultOf(msg) ==
  [ type |-> "tool_result",
    tool_use_id |-> IF "tool_call_id" \in DOMAIN msg THEN msg.tool_call_id ELSE "",
    content |-> IF msg.kind = "string" THEN msg.text ELSE EmptyJsonString ]

\* A conversion that starts a new user message for every tool result.
mergesWithLast_never(messages) == FALSE

\* Whether a tool result goes into the last message of the list: it is a
\* user message whose content is an array of tool_result blocks only.
mergesWithLast(messages) ==
  Len(messages) > 0 /\ messages[Len(messages)].kind = "tool_results"

RECURSIVE convertMessagesToAnthropic(_, _)
convertMessagesToAnthropic(openaiMessages, acc) ==
  IF Len(openaiMessages) = 0 THEN acc
  ELSE
    LET msg  == Head(openaiMessages)
        rest == Tail(openaiMessages)
        n    == Len(acc.messages)
    IN
    IF isSystem(msg) THEN
      convertMessagesToAnthropic(rest,
        [ acc EXCEPT !.system =
            (IF Len(@) > 0 THEN @ \o << "\n" >> ELSE << >>) \o textOf(msg) ])
    ELSE IF msg.role = "tool" THEN
      LET toolResult == toolResultOf(msg)
      IN
      IF mergesWithLast(acc.messages)
        THEN convertMessagesToAnthropic(rest,
               [ acc EXCEPT !.messages[n].results = Append(@, toolResult) ])
        ELSE convertMessagesToAnthropic(rest,
               [ acc EXCEPT !.messages = Append(@, ToolResultsOut(<< toolResult >>)) ])
    ELSE IF msg.role = "assistant" /\ msg.kind = "tool_calls" THEN
      convertMessagesToAnthropic(rest,
        [ acc EXCEPT !.messages = Append(@, ToolUseOut(textOf(msg))) ])
    ELSE
      convertMessagesToAnthropic(rest,
        [ acc EXCEPT !.messages =
            Append(@, TextOut(IF msg.role = "assistant" THEN "assistant" ELSE "user",
                              textOf(msg))) ])

\* ---------------------------------------------------------------- response

\* The headers handleRequest sets on every response before it dispatches.
CorsHeaders ==
  ( "Access-Control-Allow-Origin"  :> "*" ) @@
  ( "Access-Control-Allow-Methods" :> "GET, POST, OPTIONS" ) @@
  ( "Access-Control-Allow-Headers" :> "Content-Type, Authorization" )

\* The ServerResponse a handler is given.
NewResponse ==
  [ headersSent   |-> FALSE,
    writableEnded |-> FALSE,
    statusLines   |-> << >>,
    headers       |-> CorsHeaders,
    body          |-> << >>,
    ended         |-> 0,
    lateWrites    |-> 0 ]

setHeader(r, name, value) == [ r EXCEPT !.headers = (name :> value) @@ @ ]

getHeader(r, name) ==
  IF name \in DOMAIN r.headers THEN r.headers[name] ELSE Null

writeHead(r, status, contentType) ==
  [ r EXCEPT !.headersSent = TRUE,
             !.statusLines = Append(@, status),
             !.headers     = ("Content-Type" :> contentType) @@ @ ]

\* res.write(w); lateWrites counts the writes to a response already ended.
write(r, w) ==
  [ r EXCEPT !.body = Append(@, w),
             !.lateWrites = IF r.writableEnded THEN @ + 1 ELSE @ ]

end(r) == [ r EXCEPT !.writableEnded = TRUE, !.ended = @ + 1 ]

\* sendError: a JSON error response.
sendError(r, status, message, type) ==
  end(write(writeHead(r, status, "application/json"),
            [ w |-> "error_json", message |-> message, type |-> type, code |-> status ]))

\* The writes of a stream.
DoneLine == [ w |-> "done" ]                              \* data: [DONE]\n\n
ErrorEvent(message) == [ w |-> "error_event", message |-> message ]
DataChunk(chunk) == [ w |-> "data", chunk |-> chunk ]     \* data: <json>\n\n
RawLine(kind) == [ w |-> "raw", line |-> kind ]           \* line + "\n"
BlankLine == [ w |-> "blank" ]                            \* "\n"

\* ------------------------------------------------- Anthropic stream events

\* One line of the upstream SSE body, as the translator tells them apart.
Line(type) ==
  [ type |-> type, block |-> Null, id |-> Null, name |-> Null,
    dtype |-> Null, text |-> Null, partial_json |-> Null, stop_reason |-> Null ]

\* What a delta says when it belongs to a thinking block, and otherwise.
ThinkingText == "thinking text"
AnswerText   == "answer text"

BlockStart(b) ==
  [ Line("content_block_start") EXCEPT
      !.block = b,
      !.id    = IF b = "tool_use" THEN "toolu_1" ELSE Null,
      !.name  = IF b = "tool_use" THEN "get_weather" ELSE Null ]
\* A second tool call, with an id and a name of its own.
ToolStart2 ==
  [ BlockStart("tool_use") EXCEPT !.id = "toolu_2", !.name = "get_time" ]
BlockStop == Line("content_block_stop")
ThinkingDelta ==
  [ Line("content_block_delta") EXCEPT !.dtype = "thinking_delta" ]
TextDelta(t) ==
  [ Line("content_block_delta") EXCEPT !.dtype = "text_delta", !.text = t ]
JsonDelta(j) ==
  [ Line("content_block_delta") EXCEPT !.dtype = "input_json_delta", !.partial_json = j ]
MessageDelta(sr) == [ Line("message_delta") EXCEPT !.stop_reason = sr ]
MessageStop == Line("message_stop")
\* A line that does not start with "data: ", or "data: [DONE]", or "data: ".
SkippedLine == Line("skipped")
\* A data line whose payload JSON.parse rejects.
UnparseableLine == Line("unparseable")
\* A parsed event of a type the translator does not look at (ping, ...).
OtherEvent == Line("ping")

\* The lines an Anthropic upstream may send next, given the block it has
\* open: blocks do not nest, deltas come inside a block.  A delta inside a
\* thinking block may carry a text field.
AnthropicLines(open) ==
  IF open = "none"
    THEN { BlockStart("thinking"), BlockStart("text"), BlockStart("tool_use"),
           ToolStart2,
           MessageDelta("tool_use"), MessageDelta("end_turn"), MessageDelta(Null),
           MessageStop, SkippedLine, UnparseableLine, OtherEvent }
    ELSE { BlockStop } \cup
         ( CASE open = "thinking" -> { ThinkingDelta, TextDelta(ThinkingText) }
             [] open = "text"     -> { TextDelta(AnswerText) }
             [] open = "tool_use" -> { JsonDelta("{\"city\":"), JsonDelta("\"Oslo\"}"),
                                      TextDelta(AnswerText) } )

\* The block the upstream has open after a line.
openAfter(open, line) ==
  IF line.type = "content_block_start" THEN line.block
  ELSE IF line.type = "content_block_stop" THEN "none"
  ELSE open

\* A translator whose tool index starts at 0.
NewTranslator_fromZero ==
  [ insideThinking |-> FALSE, currentBlockType |-> Null,
    currentToolIndex |-> 0, stopReason |-> Null ]

\* The translator's locals at the start of a stream.
NewTranslator ==
  [ insideThinking |-> FALSE, currentBlockType |-> Null,
    currentToolIndex |-> -1, stopReason |-> Null ]

\* makeChunk(delta, finish).
makeChunk(modelName, delta, finish) ==
  [ object |-> "chat.completion.chunk", model |-> namespaced(modelName),
    delta |-> delta, finish_reason |-> finish ]

\* A translator that drops no delta.
skipsDelta_never(t) == FALSE

\* if (insideThinking) continue: whether a delta is dropped.
skipsDelta(t) == t.insideThinking

\* The body of the for loop of forwardToAnthropic for one line: the
\* translator's locals and the response after it.
translateAnthropic(t, r, line, modelName) ==
  CASE line.type \in { "skipped", "unparseable" } -> [ tr |-> t, res |-> r ]
    [] line.type = "content_block_start" ->
         IF line.block = "thinking"
           THEN [ tr |-> [ t EXCEPT !.insideThinking = TRUE,
                                    !.currentBlockType = "thinking" ],
                  res |-> r ]
         ELSE IF line.block = "tool_use"
           THEN [ tr |-> [ t EXCEPT !.insideThinking = FALSE,
                                    !.currentBlockType = "tool_use",
                                    !.currentToolIndex = @ + 1 ],
                  res |-> write(r, DataChunk(makeChunk(modelName,
                            [ kind |-> "tool_calls", index |-> t.currentToolIndex + 1,
                              id |-> line.id, type |-> "function",
                              name |-> line.name, arguments |-> "" ],
                            Null))) ]
         ELSE [ tr |-> [ t EXCEPT !.insideThinking = FALSE,
                                  !.currentBlockType =
                                     IF line.block = Null THEN "text" ELSE line.block ],
                res |-> r ]
    [] line.type = "content_block_stop" ->
         [ tr |-> [ t EXCEPT !.insideThinking = FALSE, !.currentBlockType = Null ],
           res |-> r ]
    [] line.type = "content_block_delta" ->
         IF skipsDelta(t) THEN [ tr |-> t, res |-> r ]
         ELSE IF t.currentBlockType = "tool_use" /\ line.dtype = "input_json_delta"
           THEN [ tr |-> t,
                  res |-> write(r, DataChunk(makeChunk(modelName,
                            [ kind |-> "tool_calls", index |-> t.currentToolIndex,
                              id |-> Null, type |-> Null, name |-> Null,
                              arguments |-> IF line.partial_json = Null
                                              THEN "" ELSE line.partial_json ],
                            Null))) ]
         ELSE IF line.text # Null /\ line.text # ""
           THEN [ tr |-> t,
                  res |-> write(r, DataChunk(makeChunk(modelName,
                            [ kind |-> "content", content |-> line.text ], Null))) ]
         ELSE [ tr |-> t, res |-> r ]
    [] line.type = "message_delta" ->
         [ tr |-> [ t EXCEPT !.stopReason = line.stop_reason ], res |-> r ]
    [] line.type = "message_stop" ->
         [ tr |-> t,
           res |-> write(r, DataChunk(makeChunk(modelName, [ kind |-> "empty" ],
                     IF t.stopReason = "tool_use" THEN "tool_calls" ELSE "stop"))) ]
    [] OTHER -> [ tr |-> t, res |-> r ]

\* A finally that only closes the response.
finallyAnthropic_bare(r) == end(r)

\* The finally of forwardToAnthropic's read loop.
finallyAnthropic(r) == end(write(r, DoneLine))

\* --------------------------------------------------- OpenAI stream lines

\* The lines an OpenAI-compatible upstream may send: the terminator, a JSON
\* chunk with or without a model field, a data line that is no JSON, a line
\* that is no data line, an empty line.
OpenAILines ==
  { [ type |-> "data_done",  hasModel |-> FALSE ],
    [ type |-> "data_json",  hasModel |-> TRUE ],
    [ type |-> "data_json",  hasModel |-> FALSE ],
    [ type |-> "data_bad",   hasModel |-> FALSE ],
    [ type |-> "other",      hasModel |-> FALSE ],
    [ type |-> "empty",      hasModel |-> FALSE ] }

\* A JSON object of the upstream that has no model field.
NoModelField == << >>

\* The body of the for loop of forwardToOpenAI for one line.
translateOpenAI(r, line, modelName) ==
  CASE line.type = "data_done" -> write(r, DoneLine)
    [] line.type = "data_json" ->
         write(r, DataChunk([ object |-> "upstream chunk",
                              model |-> IF line.hasModel THEN namespaced(modelName)
                                                        ELSE NoModelField ]))
    [] line.type = "data_bad" -> write(r, RawLine("data_bad"))
    [] line.type = "other"    -> write(r, RawLine("other"))
    [] line.type = "empty"    -> write(r, BlankLine)

\* The finally of forwardToOpenAI's read loop.
finallyOpenAI(r) == IF ~ r.writableEnded THEN end(write(r, DoneLine)) ELSE r

\* --------------------------------------------------------------- variables

VARIABLES
  pc,            \* where the chat handler is: idle, loop, fetch, read, done
  chatReq,       \* the request body as parsed
  tier,          \* the tier of the routing decision
  routedModel,   \* the model of the routing decision
  reasoning,     \* the reasoning of the routing decision
  modelsToTry,   \* the chain of the fallback loop
  idx,           \* the loop's position in the chain
  lastError,     \* the message of the last caught error
  res,           \* the response to the client
  stats,         \* the process-wide counters
  authProfiles,  \* the providers the credential cache holds a credential for
  upstreamCalls, \* every request sent upstream, in order
  failLog,       \* every failed attempt, with the response as it was at the throw
  tr,            \* the stream translator's locals
  upOpen,        \* the block the upstream has open
  reads,         \* how many lines the current stream has delivered
  received,      \* the lines the current stream has delivered
  maxReads,      \* how many lines a stream may deliver
  startSnapshot, \* the configuration and credentials current as the request started
  lookups,       \* every credential lookup of the request, with what it found
  attempts       \* every forwardRequest call of the request: model and tier

VARIABLES fnArg, fnRet, fnPc

reqVars == << pc, chatReq, tier, routedModel, reasoning, modelsToTry, idx,
              lastError, res, stats, authProfiles, upstreamCalls, failLog,
              tr, upOpen, reads, received, maxReads, startSnapshot, lookups,
              attempts >>
fnVars == << fnArg, fnRet, fnPc >>
vars == << reqVars, fnVars, cfgVars >>

\* The credentials a deployment's auth-profiles.json may hold.
AuthStates ==
  { { "anthropic", "kimi-coding" }, { "anthropic" }, { },
    { "anthropic", "openai", "constructor" } }

\* ------------------------------------------------------------------ requests

\* The messages a request is made of.
Msgs ==
  { StringMsg("user", T_hi), StringMsg("user", T_max),
    StringMsg("system", T_hi),
    StringMsg("assistant", T_hi), NullMsg("assistant"),
    StringMsg("tool", T_hi) }

RECURSIVE SeqsUpTo(_, _)
SeqsUpTo(S, n) ==
  IF n = 0 THEN { << >> }
  ELSE LET shorter == SeqsUpTo(S, n - 1)
       IN  shorter \cup { Append(q, x) : q \in { t \in shorter : Len(t) = n - 1 }, x \in S }

MsgLists == SeqsUpTo(Msgs, MaxMsgs)

\* The model field of a request: absent, a sentinel, an OpenAI-compatible
\* model, a model of a provider the table does not hold, a bare model name,
\* a model whose prefix is an inherited member's name.
ReqModels == { Null, "auto", Kimi, Gpt4o, BareHaiku, ProtoModel }

\* The bodies a client may post: text that is no JSON, the JSON value null,
\* or an object whose messages field is absent, not an array, or an array.
Requests ==
  { [ body |-> b, model |-> Null, msgKind |-> "absent", messages |-> << >>,
      stream |-> FALSE ] : b \in { "invalid", "null" } }
  \cup
  { [ body |-> "object", model |-> m, msgKind |-> k, messages |-> << >>,
      stream |-> FALSE ] : m \in ReqModels, k \in { "absent", "nonarray" } }
  \cup
  { [ body |-> "object", model |-> m, msgKind |-> "array", messages |-> ms,
      stream |-> st ] : m \in ReqModels, ms \in MsgLists, st \in BOOLEAN }

\* stats as the process starts.
NewStats ==
  [ requests |-> 0, errors |-> 0, timeouts |-> 0,
    byTier  |-> [ t \in Tiers \cup { "EXPLICIT" } |-> 0 ],
    byModel |-> [ m \in ModelIds |-> 0 ] ]

\* `user-mode: ${tier.toLowerCase()}`.
userModeReasoning(t) ==
  CASE t = "SIMPLE"    -> "user-mode: simple"
    [] t = "MEDIUM"    -> "user-mode: medium"
    [] t = "COMPLEX"   -> "user-mode: complex"
    [] t = "REASONING" -> "user-mode: reasoning"

InitServer ==
  /\ pc = "idle"
  /\ chatReq = Null
  /\ tier = Null
  /\ routedModel = Null
  /\ reasoning = Null
  /\ modelsToTry = << >>
  /\ idx = 0
  /\ lastError = ""
  /\ res = NewResponse
  /\ stats = NewStats
  /\ configFile \in { "none", "custom" }
  /\ activeConfig = loadConfig(configFile)
  /\ authFile \in AuthStates
  /\ authLoaded = FALSE
  /\ authProfiles = { }
  /\ adminLog = << >>
  /\ startSnapshot = Null
  /\ lookups = << >>
  /\ attempts = << >>
  /\ upstreamCalls = << >>
  /\ failLog = << >>
  /\ tr = NewTranslator
  /\ upOpen = "none"
  /\ reads = 0
  /\ received = << >>
  /\ maxReads = MaxReads

Init ==
  /\ InitServer
  /\ fnArg = Null /\ fnRet = Null /\ fnPc = "idle"

\* ------------------------------------------------------ handleChatCompletions

\* An early return through sendError: nothing but the response changes.
Reject(status, message) ==
  /\ res' = sendError(res, status, message, "server_error")
  /\ pc' = "done"
  /\ UNCHANGED << tier, routedModel, reasoning, modelsToTry, idx, stats >>

\* An exception that leaves handleChatCompletions: handleRequest's catch
\* answers 500 unless the headers are out.
Unhandled(message) ==
  /\ res' = IF ~ res.headersSent
              THEN sendError(res, 500, message, "server_error") ELSE res
  /\ pc' = "done"
  /\ UNCHANGED << tier, routedModel, reasoning, modelsToTry, idx, stats >>

\* A model id that names the accessor every plain object inherits: reading
\* byModel[id] gives Object.prototype, and assigning a string to it sets
\* nothing.
ProtoKey == "__proto__"

\* stats.byModel[routedModel] = (stats.byModel[routedModel] ?? 0) + 1, on the
\* plain object byModel: an own key is counted, the inherited accessor is not.
countModel(byModel, m) ==
  IF m = ProtoKey THEN byModel ELSE [ byModel EXCEPT ![m] = @ + 1 ]

\* The three increments of "Update stats", one after the other with no await
\* between them.
countRequest(s, t, m) ==
  [ s EXCEPT !.requests = @ + 1,
             !.byTier[t] = @ + 1,
             !.byModel = countModel(@, m) ]

\* stats.timeouts++ of the loop's catch.
countTimeout(s) == [ s EXCEPT !.timeouts = @ + 1 ]

\* stats.errors++ after the loop.
countError(s) == [ s EXCEPT !.errors = @ + 1 ]

\* The decision is made: counters, routing headers, chain.
Routed(t, m, why) ==
  /\ tier' = t
  /\ routedModel' = m
  /\ reasoning' = why
  /\ stats' = countRequest(stats, t, m)
  /\ res' = setHeader(setHeader(setHeader(res,
                "X-ClawRouter-Model", m),
                "X-ClawRouter-Tier", t),
                "X-ClawRouter-Reasoning", why)
  /\ modelsToTry' = modelsToTryOf(m, t, getRoutingConfig)
  /\ idx' = 1
  /\ pc' = "loop"

\* loadAuthProfiles(): the credentials of the file on disk.
loadAuthProfiles == authFile

\* authCache once getAuth has run: the cache if it is set, else the file
\* as loaded now.
authCacheAfterGet == IF authLoaded THEN authProfiles ELSE loadAuthProfiles

\* getAuth(provider), as far as the forwarders look at it: whether a
\* credential comes back.
getAuth(provider) == provider \in authCacheAfterGet

\* A reload that leaves the cache as it is.
reloadAuth_kept == UNCHANGED << authLoaded, authProfiles >>

\* reloadAuth(): authCache = null.
reloadAuth == authLoaded' = FALSE /\ authProfiles' = { }

\* What classifyByRules may return for a request: any tier or none, an
\* agentic score below the threshold or at it.
RuleResults ==
  { [ tier |-> t, confidence |-> 90, agenticScore |-> a ] :
      t \in Tiers \cup { Null }, a \in { 0, AgenticThreshold } }

\* chatReq.max_tokens ?? 4096, for requests that name no max_tokens.
maxTokensOf(req) == Num(4096)

\* buildPricingMap(): the price entries by model; none are known here.
modelPricing == << >>

\* tierConfig?.primary ?? "anthropic/claude-opus-4-6" of the override branch.
overridePrimary(t, config) ==
  IF t \in DOMAIN config.tiers THEN config.tiers[t].primary ELSE Opus

\* handleChatCompletions from the parse of the body to the start of the
\* fallback loop.
ReceiveRequestFrom(requests) ==
  /\ pc = "idle"
  /\ startSnapshot' = [ config |-> activeConfig, auth |-> authCacheAfterGet,
                        reloads |-> Len(adminLog) ]
  /\ \E req \in requests :
       /\ chatReq' = req
       /\ IF req.body = "invalid" THEN Reject(400, "Invalid JSON body")
          ELSE IF req.body = "null"
            THEN Unhandled("Cannot read properties of null (reading 'model')")
          ELSE IF req.model = Null THEN Reject(400, "model field is required")
          ELSE IF req.msgKind # "array" \/ Len(req.messages) = 0
            THEN Reject(400, "messages array is required")
          ELSE
            LET extracted == extractPromptForClassification(req.messages)
                prompt    == extracted.prompt
            IN
            IF Len(prompt) = 0 THEN Reject(400, "No user message found")
            ELSE IF req.model \in AutoModels THEN
              LET modeOverride == detectModeOverride(prompt) IN
              IF modeOverride.ok THEN
                IF modeOverride.tier \notin Tiers
                  THEN Unhandled("modeOverride.tier.toLowerCase is not a function")
                  ELSE Routed(modeOverride.tier,
                              overridePrimary(modeOverride.tier, getRoutingConfig),
                              userModeReasoning(modeOverride.tier))
              ELSE
                \E ruleResult \in RuleResults :
                  LET decision == route(prompt, extracted.systemPrompt, maxTokensOf(req),
                                        [ config |-> getRoutingConfig,
                                          modelPricing |-> modelPricing ],
                                        ruleResult)
                  IN  IF decision.threw
                        THEN Unhandled("Cannot read properties of null (reading 'primary')")
                        ELSE Routed(decision.tier, decision.model, decision.reasoning)
            ELSE Routed("EXPLICIT", req.model, "explicit model")
  /\ UNCHANGED << lastError, authProfiles, upstreamCalls, failLog, tr, upOpen,
                  reads, received, maxReads, lookups, attempts, fnVars,
                  cfgVars >>

ReceiveRequest == ReceiveRequestFrom(Requests)

\* ----------------------------------------------------------- fallback loop

\* An Error, and the TimeoutError the handler tells apart from it.
Error(message)        == [ message |-> message, timeout |-> FALSE ]
TimeoutError(message) == [ message |-> message, timeout |-> TRUE ]

\* A loop that is left only once something of the body is out.
breaksLoop_bodyWritten(r) == Len(r.body) > 0

\* if (res.headersSent) break.
breaksLoop(r) == r.headersSent

\* A tail that calls sendError without its type argument.
errorTail_defaultType(r, message) ==
  IF ~ r.headersSent THEN sendError(r, 502, << "Backend error: ", message >>, "server_error")
  ELSE IF ~ r.writableEnded
    THEN end(write(write(r, ErrorEvent(message)), DoneLine))
  ELSE r

\* A tail that writes the error event on every stream, ended or not.
errorTail_unguarded(r, message) ==
  IF ~ r.headersSent THEN sendError(r, 502, << "Backend error: ", message >>, "upstream_error")
  ELSE end(write(write(r, ErrorEvent(message)), DoneLine))

\* What follows the loop when no attempt returned: the error counter, and a
\* 502, or the error event and terminator on a stream that is still open.
errorTail(r, message) ==
  IF ~ r.headersSent THEN sendError(r, 502, << "Backend error: ", message >>, "upstream_error")
  ELSE IF ~ r.writableEnded
    THEN end(write(write(r, ErrorEvent(message)), DoneLine))
  ELSE r

\* The catch of the loop, for an error thrown by forwardRequest when the
\* response was atThrow, and is now after the forwarder's finally has run:
\* the next entry is tried, or the loop is left and the tail runs.
Caught(err, atThrow, now) ==
  LET counted == IF err.timeout THEN countTimeout(stats) ELSE stats
      goesOn  == ~ breaksLoop(now) /\ idx < Len(modelsToTry)
  IN
  /\ lastError' = err.message
  /\ failLog' = Append(failLog,
       [ at |-> idx, model |-> modelsToTry[idx],
         headersSent |-> atThrow.headersSent, bodyWrites |-> Len(atThrow.body),
         timeout |-> err.timeout, message |-> err.message ])
  /\ IF goesOn
       THEN /\ idx' = idx + 1
            /\ pc' = "loop"
            /\ stats' = counted
            /\ res' = now
       ELSE /\ idx' = idx
            /\ pc' = "done"
            /\ stats' = countError(counted)
            /\ res' = errorTail(now, err.message)

\* The provider and api of the loop's current entry.
current == parseModelId(modelsToTry[idx])
currentApi == providerConfig(current.provider).api

\* A field an object may lack.
None    == [ defined |-> FALSE ]
Some(v) == [ defined |-> TRUE, v |-> v ]
opt(req, f) == IF f \in DOMAIN req THEN Some(req[f]) ELSE None

\* modelId.includes("opus-4-6") || modelId.includes("opus-4.6"), on the
\* model names of this module.
BareOpus    == "claude-opus-4-6"
BareOpusDot == "claude-opus-4.6"
supportsAdaptiveThinking(modelId) == modelId \in { BareOpus, BareOpusDot, Opus }

\* budget_tokens of the thinking config of the MEDIUM tier.
ThinkingBudget == 4096
\* req.max_tokens ?? 4096 of forwardToAnthropic.
DefaultMaxTokens == 4096

NoThinking       == [ defined |-> FALSE, type |-> "off",      budget_tokens |-> 0 ]
AdaptiveThinking == [ defined |-> TRUE,  type |-> "adaptive", budget_tokens |-> 0 ]
EnabledThinking(budget) ==
  [ defined |-> TRUE, type |-> "enabled", budget_tokens |-> budget ]

\* A thinking config that is on for every tier but SIMPLE.
getThinkingConfig_aboveSimple(t, modelId) ==
  IF supportsAdaptiveThinking(modelId) /\ t \in { "COMPLEX", "REASONING" }
    THEN AdaptiveThinking
  ELSE IF t # "SIMPLE" THEN EnabledThinking(ThinkingBudget)
  ELSE NoThinking

\* getThinkingConfig(tier, modelId); NoThinking stands for undefined.
getThinkingConfig(t, modelId) ==
  IF supportsAdaptiveThinking(modelId) /\ t \in { "COMPLEX", "REASONING" }
    THEN AdaptiveThinking
  ELSE IF t = "MEDIUM" THEN EnabledThinking(ThinkingBudget)
  ELSE NoThinking

\* convertToolsToAnthropic: name and input_schema of each function.
DefaultSchema == "{type: object, properties: {}}"
convertToolsToAnthropic(tools) ==
  [ i \in DOMAIN tools |->
      [ name |-> tools[i].name,
        input_schema |-> IF tools[i].parameters = Null THEN DefaultSchema
                                                       ELSE tools[i].parameters ] ]

\* convertToolChoiceToAnthropic, for the string forms of tool_choice.
convertToolChoiceToAnthropic(toolChoice) ==
  CASE toolChoice = "none"     -> "none"
    [] toolChoice = "auto"     -> "auto"
    [] toolChoice = "required" -> "any"
    [] OTHER                   -> "auto"

\* The tools and tool_choice of the body forwardToOpenAI builds: the body
\* is made of model, messages, stream, max_tokens, temperature and top_p.
openAITools(req) == [ tools |-> None, tool_choice |-> None ]

\* A number as JSON.stringify writes it into the body: a number that is not
\* finite is written as null.
JsonNull == [ k |-> "null", v |-> 0 ]
stringifyNumber(n) == IF n.k = "fin" THEN n ELSE JsonNull

\* req.max_tokens ?? 4096.
callerMaxTokens(req) ==
  IF opt(req, "max_tokens").defined THEN req["max_tokens"] ELSE Num(DefaultMaxTokens)

\* max_tokens of the Anthropic body: raised by the budget when thinking is
\* enabled with a budget that is not 0.
anthropicMaxTokens(maxTokens, thinkingConfig) ==
  IF thinkingConfig.type = "enabled" /\ thinkingConfig.budget_tokens # 0
    THEN plus(maxTokens, Num(thinkingConfig.budget_tokens))
    ELSE maxTokens

\* The body sent upstream for a request.
upstreamBody(api, req, modelName, t, stream) ==
  IF api = "anthropic-messages"
    THEN LET converted == convertMessagesToAnthropic(req.messages,
                            [ system |-> << >>, messages |-> << >> ])
             thinkingConfig == getThinkingConfig(t, modelName)
             maxTokens == callerMaxTokens(req)
             hasTools == opt(req, "tools").defined /\ Len(req["tools"]) > 0
         IN  [ api |-> api, model |-> modelName, stream |-> stream,
               system |-> converted.system, messages |-> converted.messages,
               max_tokens |-> Some(stringifyNumber(
                                     anthropicMaxTokens(maxTokens, thinkingConfig))),
               tools |-> IF hasTools THEN Some(convertToolsToAnthropic(req["tools"]))
                                     ELSE None,
               tool_choice |-> IF hasTools /\ opt(req, "tool_choice").defined
                                 THEN Some(convertToolChoiceToAnthropic(req["tool_choice"]))
                                 ELSE None,
               thinking |-> thinkingConfig,
               temperature |-> IF ~ thinkingConfig.defined THEN opt(req, "temperature")
                                                           ELSE None ]
    ELSE [ api |-> api, model |-> modelName, stream |-> stream,
           system |-> << >>, messages |-> req.messages,
           max_tokens |-> IF opt(req, "max_tokens").defined
                               /\ req["max_tokens"] # Num(0)
                            THEN Some(stringifyNumber(req["max_tokens"])) ELSE None,
           tools |-> openAITools(req).tools,
           tool_choice |-> openAITools(req).tool_choice,
           thinking |-> NoThinking,
           temperature |-> opt(req, "temperature") ]

\* A loop that leaves the model header as the routing decision set it.
attemptHeader_kept(r, modelToTry, routed) == r

\* A fallback's id replaces the routed model's in the model header.
attemptHeader(r, modelToTry, routed) ==
  IF modelToTry # routed THEN setHeader(r, "X-ClawRouter-Model", modelToTry) ELSE r

\* A loop that drops to the lowest tier when it falls back.
forwardArgs_retiered(modelToTry, t, routed) ==
  [ model |-> modelToTry, tier |-> IF modelToTry # routed THEN "SIMPLE" ELSE t ]

\* forwardRequest(chatReq, modelToTry, tier, res, stream): the model and the
\* tier an attempt is made with.
forwardArgs(modelToTry, t, routed) == [ model |-> modelToTry, tier |-> t ]

\* One turn of the loop up to the fetch: the fallback's header, the provider
\* lookup of forwardRequest, the credential lookup of the forwarder, the
\* request sent.
StartAttempt ==
  /\ pc = "loop"
  /\ attempts' = Append(attempts, forwardArgs(modelsToTry[idx], tier, routedModel))
  /\ LET r == attemptHeader(res, modelsToTry[idx], routedModel)
     IN
     IF ~ providerConfig(current.provider).ok THEN
       /\ Caught(Error("Unsupported provider"), r, r)
       /\ UNCHANGED << upstreamCalls, authProfiles, authLoaded, lookups >>
     ELSE
       /\ authProfiles' = authCacheAfterGet
       /\ authLoaded' = TRUE
       /\ lookups' = Append(lookups,
            [ provider |-> current.provider, found |-> getAuth(current.provider),
              reloads |-> Len(adminLog) ])
       /\ IF ~ getAuth(current.provider) THEN
            /\ Caught(Error("No credential"), r, r)
            /\ UNCHANGED upstreamCalls
          ELSE IF ~ providerConfig(current.provider).baseUrl THEN
            /\ Caught(Error("Failed to parse URL"), r, r)
            /\ UNCHANGED upstreamCalls
          ELSE
            /\ res' = r
            /\ pc' = "fetch"
            /\ upstreamCalls' = Append(upstreamCalls,
                 upstreamBody(currentApi, chatReq, current.model, tier, chatReq.stream))
            /\ UNCHANGED << idx, lastError, stats, failLog >>
  /\ UNCHANGED << chatReq, tier, routedModel, reasoning, modelsToTry,
                  tr, upOpen, reads, received, maxReads, startSnapshot, fnVars,
                  configFile, activeConfig, authFile, adminLog >>

\* How the fetch and the reading of a non-streamed body may end.
FetchOutcomes == { "rejected", "timeout", "not_ok", "ok", "ok_json_fails", "ok_no_body" }

\* The fetch settles: an error thrown before any header, the whole
\* completion written, or the stream's headers written and, with no body to
\* read, an error thrown after them.
FetchSettles ==
  /\ pc = "fetch"
  /\ \E outcome \in FetchOutcomes, hasModel \in BOOLEAN :
       CASE outcome = "rejected" ->
              /\ hasModel
              /\ Caught(Error("fetch failed"), res, res)
              /\ UNCHANGED << tr, upOpen, reads, received >>
         [] outcome = "timeout" ->
              /\ hasModel
              /\ Caught(TimeoutError("timed out"), res, res)
              /\ UNCHANGED << tr, upOpen, reads, received >>
         [] outcome = "not_ok" ->
              /\ hasModel
              /\ Caught(Error("API error"), res, res)
              /\ UNCHANGED << tr, upOpen, reads, received >>
         [] outcome = "ok_json_fails" ->
              /\ hasModel /\ ~ chatReq.stream
              /\ Caught(Error("Unexpected token"), res, res)
              /\ UNCHANGED << tr, upOpen, reads, received >>
         [] outcome = "ok" /\ ~ chatReq.stream ->
              /\ (currentApi = "anthropic-messages") => hasModel
              /\ res' = end(write(writeHead(res, 200, "application/json"),
                   [ w |-> "completion",
                     model |-> IF hasModel THEN namespaced(current.model)
                                           ELSE NoModelField ]))
              /\ pc' = "done"
              /\ UNCHANGED << idx, lastError, stats, failLog, tr, upOpen, reads,
                              received >>
         [] outcome = "ok" /\ chatReq.stream ->
              /\ hasModel
              /\ res' = writeHead(res, 200, "text/event-stream")
              /\ pc' = "read"
              /\ tr' = NewTranslator
              /\ upOpen' = "none"
              /\ reads' = 0
              /\ received' = << >>
              /\ UNCHANGED << idx, lastError, stats, failLog >>
         [] outcome = "ok_no_body" ->
              /\ hasModel /\ chatReq.stream
              /\ LET r == writeHead(res, 200, "text/event-stream")
                 IN  Caught(Error("No response body"), r, r)
              /\ UNCHANGED << tr, upOpen, reads, received >>
  /\ UNCHANGED << chatReq, tier, routedModel, reasoning, modelsToTry,
                  authProfiles, upstreamCalls, maxReads, startSnapshot, lookups,
                  attempts, fnVars, cfgVars >>

\* The finally of the forwarder that is streaming.
finallyOf(api, r) ==
  IF api = "anthropic-messages" THEN finallyAnthropic(r) ELSE finallyOpenAI(r)

\* How a reader.read() may settle.
ReadOutcomes == { "value", "done", "error" }

\* One reader.read() of the streaming loop settles: a line is translated,
\* or the stream ends and the finally runs, or the read throws, the finally
\* runs and the error reaches the handler's catch.
ReadSettles ==
  /\ pc = "read"
  /\ \E outcome \in ReadOutcomes :
       CASE outcome = "value" ->
              /\ reads < maxReads
              /\ IF currentApi = "anthropic-messages"
                   THEN \E line \in AnthropicLines(upOpen) :
                          LET after == translateAnthropic(tr, res, line, current.model)
                          IN  /\ tr' = after.tr
                              /\ res' = after.res
                              /\ upOpen' = openAfter(upOpen, line)
                              /\ received' = Append(received, line)
                   ELSE \E line \in OpenAILines :
                          /\ res' = translateOpenAI(res, line, current.model)
                          /\ received' = Append(received, line)
                          /\ UNCHANGED << tr, upOpen >>
              /\ reads' = reads + 1
              /\ UNCHANGED << pc, idx, lastError, stats, failLog >>
         [] outcome = "done" ->
              /\ res' = finallyOf(currentApi, res)
              /\ pc' = "done"
              /\ UNCHANGED << idx, lastError, stats, failLog, tr, upOpen, reads,
                              received >>
         [] outcome = "error" ->
              /\ Caught(Error("terminated"), res, finallyOf(currentApi, res))
              /\ UNCHANGED << tr, upOpen, reads, received >>
  /\ UNCHANGED << chatReq, tier, routedModel, reasoning, modelsToTry,
                  authProfiles, upstreamCalls, maxReads, startSnapshot, lookups,
                  attempts, fnVars, cfgVars >>

Next ==
  \/ ReceiveRequest
  \/ StartAttempt
  \/ FetchSettles
  \/ ReadSettles

Spec == Init /\ [][Next]_vars

\* ------------------------------------------------------------ reload endpoints

\* A reload call as the log keeps it.
ReloadEntry(op, before, after) ==
  [ op |-> op, file |-> configFile, during |-> pc, before |-> before, after |-> after,
    status |-> 200, body |-> "reloaded" ]

\* The chat handler is suspended on an await (the body, the fetch, a read)
\* or not running: the only points another handler runs at.
suspended == pc # "loop"

\* handleReloadConfig: POST /reload-config.
HandleReloadConfig ==
  /\ suspended
  /\ Len(adminLog) < MaxReloads
  /\ activeConfig' = reloadConfig(configFile)
  /\ reloadAuth
  /\ adminLog' = Append(adminLog,
       ReloadEntry("/reload-config", activeConfig, reloadConfig(configFile)))
  /\ UNCHANGED << pc, chatReq, tier, routedModel, reasoning, modelsToTry, idx,
                  lastError, res, stats, upstreamCalls, failLog, tr, upOpen,
                  reads, received, maxReads, startSnapshot, lookups, attempts, fnVars,
                  configFile, authFile >>

\* handleReload: POST /reload.
HandleReload ==
  /\ suspended
  /\ Len(adminLog) < MaxReloads
  /\ activeConfig' = reloadConfig(configFile)
  /\ reloadAuth
  /\ adminLog' = Append(adminLog,
       ReloadEntry("/reload", activeConfig, reloadConfig(configFile)))
  /\ UNCHANGED << pc, chatReq, tier, routedModel, reasoning, modelsToTry, idx,
                  lastError, res, stats, upstreamCalls, failLog, tr, upOpen,
                  reads, received, maxReads, startSnapshot, lookups, attempts, fnVars,
                  configFile, authFile >>

\* The operator rewrites the config file.  The process reads the file only
\* in loadConfig, so a write that lands inside the handler's synchronous
\* code is the write that lands just before it.
EditConfigFile ==
  /\ suspended
  /\ \E file \in ConfigFiles \ { configFile } : configFile' = file
  /\ UNCHANGED << reqVars, fnVars, activeConfig, authFile, authLoaded, adminLog >>

\* The operator rewrites auth-profiles.json.
EditAuthFile ==
  /\ suspended
  /\ \E file \in AuthStates \ { authFile } : authFile' = file
  /\ UNCHANGED << reqVars, fnVars, configFile, activeConfig, authLoaded, adminLog >>

\* The requests the server is sent while it is being reloaded.
ReloadRequests ==
  { [ body |-> "object", model |-> "auto", msgKind |-> "array",
      messages |-> << StringMsg("user", T_hi) >>, stream |-> FALSE ] }

ReceiveDuringReload == ReceiveRequestFrom(ReloadRequests)

NextReload ==
  \/ ReceiveDuringReload
  \/ StartAttempt
  \/ FetchSettles
  \/ HandleReloadConfig
  \/ HandleReload
  \/ EditConfigFile
  \/ EditAuthFile

SpecReload == Init /\ [][NextReload]_vars

\* ------------------------------------------------------------------ timeouts

\* The stall detector of the streaming loop fires: no data came within the
\* stall timeout, the read is aborted with a TimeoutError inside the read
\* loop, the forwarder's finally runs, and the error reaches the handler's
\* catch.
ReadStalls ==
  /\ pc = "read"
  /\ Caught(TimeoutError("stalled"), res, finallyOf(currentApi, res))
  /\ UNCHANGED << chatReq, tier, routedModel, reasoning, modelsToTry,
                  authProfiles, upstreamCalls, maxReads, startSnapshot, lookups,
                  attempts, tr, upOpen, reads, received, fnVars, cfgVars >>

\* The requests the timeouts are followed on: a classified or explicit
\* request of one user message, streamed or not.
TimeoutRequests ==
  { [ body |-> "object", model |-> m, msgKind |-> "array",
      messages |-> << StringMsg("user", T_hi) >>, stream |-> st ] :
    m \in { "auto", Kimi }, st \in BOOLEAN }

ReceiveTimed == ReceiveRequestFrom(TimeoutRequests)

NextTimeout ==
  \/ ReceiveTimed
  \/ StartAttempt
  \/ FetchSettles
  \/ ReadSettles
  \/ ReadStalls

SpecTimeout == Init /\ [][NextTimeout]_vars

\* ------------------------------------------------- the translator, at length

\* A streamed request for a bare Anthropic model name whose fetch has come
\* back ok with a body: the state forwardToAnthropic enters its read loop in.
StreamRequest ==
  [ body |-> "object", model |-> BareHaiku, msgKind |-> "array",
    messages |-> << StringMsg("user", T_hi) >>, stream |-> TRUE ]

InitStream ==
  /\ pc = "read"
  /\ chatReq = StreamRequest
  /\ tier = "EXPLICIT"
  /\ routedModel = BareHaiku
  /\ reasoning = "explicit model"
  /\ modelsToTry = << BareHaiku >>
  /\ idx = 1
  /\ lastError = ""
  /\ res = writeHead(setHeader(setHeader(setHeader(NewResponse,
              "X-ClawRouter-Model", BareHaiku),
              "X-ClawRouter-Tier", "EXPLICIT"),
              "X-ClawRouter-Reasoning", "explicit model"),
            200, "text/event-stream")
  /\ stats = [ NewStats EXCEPT !.requests = 1, !.byTier["EXPLICIT"] = 1,
                               !.byModel[BareHaiku] = 1 ]
  /\ configFile = "none"
  /\ activeConfig = loadConfig("none")
  /\ authFile = { "anthropic", "kimi-coding" }
  /\ authLoaded = TRUE
  /\ authProfiles = { "anthropic", "kimi-coding" }
  /\ adminLog = << >>
  /\ startSnapshot = [ config |-> loadConfig("none"),
                       auth |-> { "anthropic", "kimi-coding" }, reloads |-> 0 ]
  /\ lookups = << [ provider |-> "anthropic", found |-> TRUE, reloads |-> 0 ] >>
  /\ attempts = << forwardArgs(BareHaiku, "EXPLICIT", BareHaiku) >>
  /\ upstreamCalls = << upstreamBody("anthropic-messages", StreamRequest,
                                     parseModelId(BareHaiku).model, "EXPLICIT", TRUE) >>
  /\ failLog = << >>
  /\ tr = NewTranslator
  /\ upOpen = "none"
  /\ reads = 0
  /\ received = << >>
  /\ maxReads = MaxStreamLen
  /\ fnArg = Null /\ fnRet = Null /\ fnPc = "idle"

NextStream == ReadSettles

SpecStream == InitStream /\ [][NextStream]_vars

\* ------------------------------------------- detectModeOverride, stand-alone

\* The words tried as directives: the eleven aliases, and two words that are
\* no alias.
Aliases == DOMAIN modeMap
DetectWords == Aliases \cup { W_constructor, W_fast }

\* Letter cases of a word: lower, upper, capitalised.
capitalise(w) == << toUpperChar(w[1]) >> \o Tail(w)
CaseForms == { "lower", "upper", "capital" }
inCase(w, k) ==
  CASE k = "lower"   -> w
    [] k = "upper"   -> toUpperCase(w)
    [] k = "capital" -> capitalise(w)

\* The separators each prefix form allows after the directive.
SlashSeps   == { << " " >>, << "\t" >>, << " ", " " >> }
PrefixSeps  == { << ":" >>, << ":", " " >>, << "," , " " >>, << " " >> }
BracketSeps == { << >>, << " " >> }
PrefixForms == { "slash", "prefix", "bracket" }
SepsOf(form) ==
  CASE form = "slash"   -> SlashSeps
    [] form = "prefix"  -> PrefixSeps
    [] form = "bracket" -> BracketSeps

\* The user texts that follow the directive; none starts or ends with
\* whitespace or a separator, so trim() has nothing to remove from them.
T_go    == << "g", "o", " ", "x" >>
DetectTexts == { T_hi, T_go }

\* prefix + text, as the user types it.
directive(form, word, sep) ==
  CASE form = "slash"   -> << "/" >> \o word \o sep
    [] form = "prefix"  -> word \o << " " >> \o W_mode \o sep
    [] form = "bracket" -> << "[" >> \o word \o << "]" >> \o sep

DetectArgs ==
  { [ form |-> f, word |-> w, kase |-> k, sep |-> s, text |-> t,
      prompt |-> directive(f, inCase(w, k), s) \o t ] :
      f \in PrefixForms, w \in DetectWords, k \in CaseForms,
      s \in SlashSeps \cup PrefixSeps \cup BracketSeps, t \in DetectTexts }

InitDetect ==
  /\ InitServer
  /\ fnArg \in { a \in DetectArgs : a.sep \in SepsOf(a.form) }
  /\ fnRet = NoOverride
  /\ fnPc = "call"

CallDetect ==
  /\ fnPc = "call"
  /\ fnRet' = detectModeOverride(fnArg.prompt)
  /\ fnPc' = "return"
  /\ UNCHANGED << fnArg, reqVars, cfgVars >>

NextDetect == CallDetect

SpecDetect == InitDetect /\ [][NextDetect]_vars

\* ------------------------------ extractPromptForClassification, stand-alone

\* A text one character longer than the cut of a context message.
T_long == [ i \in 1 .. ContextCut + 1 |-> "x" ]

\* The messages the extractor is tried on: a user turn, assistant turns
\* with text and with null content (a turn that only calls tools), a tool
\* result, a system message.
ExtractMsgs ==
  { StringMsg("user", T_hi), StringMsg("user", T_long),
    StringMsg("assistant", T_go), NullMsg("assistant"),
    StringMsg("assistant", T_hi), StringMsg("assistant", T_long),
    StringMsg("tool", T_go),
    StringMsg("system", T_go) }

InitExtract ==
  /\ InitServer
  /\ fnArg \in SeqsUpTo(ExtractMsgs, MaxExtractMsgs)
  /\ fnRet = Null
  /\ fnPc = "extract"

CallExtract ==
  /\ fnPc = "extract"
  /\ fnRet' = extractPromptForClassification(fnArg)
  /\ fnPc' = "extracted"
  /\ UNCHANGED << fnArg, reqVars, cfgVars >>

NextExtract == CallExtract

SpecExtract == InitExtract /\ [][NextExtract]_vars

\* ------------------------------------------------------- route(), stand-alone

T_JSON    == << "J", "s", "O", "N" >>
T_schema  == << "a", " ", "S", "c", "h", "e", "m", "a" >>
T_structd == << "s", "t", "r", "u", "c", "t", "u", "r", "e", "d" >>
T_jso     == << "j", "s", "o" >>

\* The prompts route() is tried on: with and without a word of the
\* structured-output test, in either letter case.
RoutePrompts == { T_hi, T_jso, T_JSON, T_schema, T_structd }

\* The system prompts: none, an empty one, one without and ones with a
\* word of the structured-output test.
RouteSystems ==
  { [ defined |-> FALSE, text |-> << >> ] }
  \cup { [ defined |-> TRUE, text |-> t ] : t \in { << >>, T_hi, T_JSON, T_schema } }

\* The overrides of the routing config: a large-context limit the inputs
\* stay under, and limits some or all of them exceed.
RouteOverrides ==
  { [ maxTokensForceComplex   |-> m,
      structuredOutputMinTier |-> s,
      ambiguousDefaultTier    |-> a,
      agenticMode             |-> g ] :
    m \in { 1, 3, DefaultOverrides.maxTokensForceComplex },
    s \in Tiers, a \in Tiers, g \in BOOLEAN }

RouteArgs ==
  [ prompt : RoutePrompts, systemPrompt : RouteSystems,
    overrides : RouteOverrides, ruleResult : RuleResults ]

\* route() called with the default tables and the given overrides.
routeOf(a, systemPrompt) ==
  route(a.prompt, systemPrompt, maxTokensOf(Null),
        [ config |-> [ tiers |-> DEFAULT_CONFIG.tiers,
                       agenticTiers |-> DEFAULT_CONFIG.agenticTiers,
                       overrides |-> a.overrides ],
          modelPricing |-> modelPricing ],
        a.ruleResult)

InitRoute ==
  /\ InitServer
  /\ fnArg \in RouteArgs
  /\ fnRet = Null
  /\ fnPc = "route"

CallRoute ==
  /\ fnPc = "route"
  /\ fnRet' = routeOf(fnArg, fnArg.systemPrompt)
  /\ fnPc' = "routed"
  /\ UNCHANGED << fnArg, reqVars, cfgVars >>

NextRoute == CallRoute

SpecRoute == InitRoute /\ [][NextRoute]_vars

\* ------------------------------------------- selectModel() as a pure function

\* Price entries: free, the baseline's defaults, cheaper, and dearer.
PriceEntries ==
  { [ inputPrice |-> 0,   outputPrice |-> 0 ],
    [ inputPrice |-> 1,   outputPrice |-> 5 ],
    [ inputPrice |-> OpusInputDefault, outputPrice |-> OpusOutputDefault ],
    [ inputPrice |-> 100, outputPrice |-> 200 ] }

\* Pricing maps over the primaries of the default tables.
PricingMaps ==
  UNION { [ S -> PriceEntries ] : S \in SUBSET { Kimi, Sonnet, Opus } }

\* Token counts: the estimate of a text (finite), and max_tokens as the
\* request's JSON gives it (a number literal beyond the double range parses
\* to Infinity).
SelectInputTokens  == { Num(0), Num(1000) }
SelectOutputTokens == { Num(0), Num(4096), Infinity }

SelectArgs ==
  [ tier : Tiers, modelPricing : PricingMaps,
    estimatedInputTokens : SelectInputTokens,
    maxOutputTokens : SelectOutputTokens ]

InitSelect ==
  /\ InitServer
  /\ fnArg \in SelectArgs
  /\ fnRet = Null
  /\ fnPc = "select"

CallSelect ==
  /\ fnPc = "select"
  /\ fnRet' = selectModel(fnArg.tier, 90, "rules", RulesSummary,
                          DEFAULT_CONFIG.tiers, fnArg.modelPricing,
                          fnArg.estimatedInputTokens, fnArg.maxOutputTokens)
  /\ fnPc' = "selected"
  /\ UNCHANGED << fnArg, reqVars, cfgVars >>

NextSelect == CallSelect

SpecSelect == InitSelect /\ [][NextSelect]_vars

\* --------------------------------- convertMessagesToAnthropic, stand-alone

MaxConvertMsgs == 4

\* The messages the conversion is tried on: user and assistant text, an
\* assistant turn that calls tools, tool results with and without the id of
\* their call and with null content, a system message.
ConvertMsgs ==
  { StringMsg("user", T_hi), StringMsg("assistant", T_go), ToolCallsMsg,
    ToolMsg("call_1", T_hi), ToolMsg("call_2", T_go),
    StringMsg("tool", T_go), NullMsg("tool"),
    StringMsg("system", T_go) }

InitConvert ==
  /\ InitServer
  /\ fnArg \in SeqsUpTo(ConvertMsgs, MaxConvertMsgs)
  /\ fnRet = Null
  /\ fnPc = "convert"

CallConvert ==
  /\ fnPc = "convert"
  /\ fnRet' = convertMessagesToAnthropic(fnArg, [ system |-> << >>, messages |-> << >> ])
  /\ fnPc' = "converted"
  /\ UNCHANGED << fnArg, reqVars, cfgVars >>

NextConvert == CallConvert

SpecConvert == InitConvert /\ [][NextConvert]_vars

\* --------------------------------------- the upstream body, stand-alone

\* The fields a request may carry besides model, messages and stream.
WeatherTool == [ name |-> "get_weather", parameters |-> "{type: object}" ]
TimeTool    == [ name |-> "get_time",    parameters |-> Null ]
TemperatureFields == { << >>, [ temperature |-> 0 ], [ temperature |-> 1 ] }
\* max_tokens: absent, 0, 1, 100, and 1e999, which JSON.parse reads as Infinity.
MaxTokensFields   == { << >>, [ max_tokens |-> Num(0) ], [ max_tokens |-> Num(1) ],
                       [ max_tokens |-> Num(100) ], [ max_tokens |-> Infinity ] }
ToolsFields       == { << >>, [ tools |-> << >> ],
                       [ tools |-> << WeatherTool, TimeTool >> ] }
ToolChoiceFields  == { << >>, [ tool_choice |-> "auto" ],
                       [ tool_choice |-> "required" ] }

BodyRequests ==
  { StreamRequest @@ te @@ mt @@ tl @@ tc :
      te \in TemperatureFields, mt \in MaxTokensFields,
      tl \in ToolsFields, tc \in ToolChoiceFields }

\* The tiers forwardRequest is called with.
ForwardTiers == Tiers \cup { "EXPLICIT" }

\* The models a body is built for, by the api of their provider.
BodyTargets ==
  { [ api |-> "anthropic-messages", model |-> m ] :
      m \in { BareOpus, BareOpusDot, "claude-sonnet-4-5", BareHaiku } }
  \cup { [ api |-> "openai-completions", model |-> "kimi-for-coding" ] }

InitBody ==
  /\ InitServer
  /\ fnArg \in [ req : BodyRequests, target : BodyTargets, tier : ForwardTiers ]
  /\ fnRet = Null
  /\ fnPc = "body"

CallBody ==
  /\ fnPc = "body"
  /\ fnRet' = upstreamBody(fnArg.target.api, fnArg.req, fnArg.target.model,
                           fnArg.tier, fnArg.req.stream)
  /\ fnPc' = "sent"
  /\ UNCHANGED << fnArg, reqVars, cfgVars >>

NextBody == CallBody

SpecBody == InitBody /\ [][NextBody]_vars

\* ------------------------------------------- the credential cache, stand-alone

MaxAuthCalls == 4

\* The providers getAuth is asked about.
AuthProviders == { "anthropic", "kimi-coding" }

\* What the configuration and the environment say about credentials: the
\* providers whose entry has auth.type env with a key (none, or the
\* OpenAI-compatible one), and the state of the variable the key names:
\* unset, set to the empty string, or holding a key.
EnvSetups ==
  [ envProviders : SUBSET { "kimi-coding" },
    value : [ { "kimi-coding" } -> { "unset", "empty", "key" } ] ]

\* getEnvAuth(provider): whether the environment gives a credential.
getEnvAuth(provider, setup) ==
  provider \in setup.envProviders /\ setup.value[provider] = "key"

\* getAuth(provider) with the environment looked at first: where the
\* credential comes from, whether one comes back, and whether the call
\* loads the cache.
getAuthOf(provider, setup) ==
  IF getEnvAuth(provider, setup)
    THEN [ source |-> "env", found |-> TRUE, loads |-> FALSE ]
    ELSE [ source |-> "profiles", found |-> getAuth(provider),
           loads |-> ~ authLoaded ]

InitAuth ==
  /\ InitServer
  /\ configFile = "none"
  /\ fnArg \in EnvSetups
  /\ fnRet = << >>
  /\ fnPc = "auth"

CallGetAuth ==
  /\ fnPc = "auth"
  /\ Len(fnRet) < MaxAuthCalls
  /\ \E provider \in AuthProviders :
       LET r     == getAuthOf(provider, fnArg)
           cache == IF r.source = "env" THEN authProfiles ELSE authCacheAfterGet
       IN  /\ authProfiles' = cache
           /\ authLoaded' = IF r.source = "env" THEN authLoaded ELSE TRUE
           /\ fnRet' = Append(fnRet,
                [ op |-> "getAuth", provider |-> provider, source |-> r.source,
                  found |-> r.found, loaded |-> r.loads, file |-> authFile,
                  cache |-> cache ])
  /\ UNCHANGED << pc, chatReq, tier, routedModel, reasoning, modelsToTry, idx,
                  lastError, res, stats, upstreamCalls, failLog, tr, upOpen,
                  reads, received, maxReads, startSnapshot, lookups, attempts,
                  fnArg, fnPc, configFile, activeConfig, authFile, adminLog >>

CallReloadAuth ==
  /\ fnPc = "auth"
  /\ Len(fnRet) < MaxAuthCalls
  /\ reloadAuth
  /\ fnRet' = Append(fnRet,
       [ op |-> "reloadAuth", provider |-> Null, source |-> Null,
         found |-> FALSE, loaded |-> FALSE, file |-> authFile, cache |-> { } ])
  /\ UNCHANGED << pc, chatReq, tier, routedModel, reasoning, modelsToTry, idx,
                  lastError, res, stats, upstreamCalls, failLog, tr, upOpen,
                  reads, received, maxReads, startSnapshot, lookups, attempts,
                  fnArg, fnPc, configFile, activeConfig, authFile, adminLog >>

NextAuth == CallGetAuth \/ CallReloadAuth \/ EditAuthFile

SpecAuth == InitAuth /\ [][NextAuth]_vars

\* ==================================================================== claims

Last(q) == q[Len(q)]

\* The fallback loop has a further entry after the one a failure was on.
hasFurther(f) == f.at < Len(modelsToTry)

\* The loop went on to the entry after the one a failure was on.
wentOn(f) == idx > f.at

\* C1 (as the code has it): after a failed attempt with a further chain
\* entry, the next entry is attempted if and only if the response headers
\* had not been sent at the moment of the failure.
C1_RetryIffHeadersUnsent ==
  \A i \in DOMAIN failLog :
    hasFurther(failLog[i]) => (wentOn(failLog[i]) <=> ~ failLog[i].headersSent)

\* C1 (as stated): after a failed attempt with a further chain entry, the
\* next entry is attempted if and only if no bytes of the response body had
\* been written at the moment of the failure.
C1_RetryIffNoBodyBytes ==
  \A i \in DOMAIN failLog :
    hasFurther(failLog[i]) => (wentOn(failLog[i]) <=> failLog[i].bodyWrites = 0)

\* An attempt failed with the headers out and nothing of the body written,
\* a further entry exists, and the loop has been left.
C1_Witness ==
  /\ pc = "done"
  /\ \E i \in DOMAIN failLog :
       /\ hasFurther(failLog[i])
       /\ failLog[i].headersSent
       /\ failLog[i].bodyWrites = 0
       /\ ~ wentOn(failLog[i])

\* C2: when an attempt fails after the response headers were sent, no
\* further entry is attempted and the stream ends with the error event that
\* carries the failure message, then data: [DONE], and the response closed.
C2_ErrorEventThenDone ==
  ( pc = "done" /\ Len(failLog) > 0 /\ Last(failLog).headersSent ) =>
    /\ ~ wentOn(Last(failLog))
    /\ res.writableEnded
    /\ Len(res.body) >= 2
    /\ res.body[Len(res.body) - 1] = ErrorEvent(lastError)
    /\ Last(res.body) = DoneLine

\* The request went down the override branch.
overridden == reasoning \in { userModeReasoning(t) : t \in Tiers }

\* The request was classified, and with the agentic table or the base one.
RuleReasonings(agenticMark) ==
  { RulesSummary \o a \o agenticMark :
      a \in { "", " | ambiguous -> default: MEDIUM" } }
classified == reasoning \in RuleReasonings("") \cup RuleReasonings(" | auto-agentic")
selectedAgentic == reasoning \in RuleReasonings(" | auto-agentic")

\* A text begins with a directive of the table.
hasDirective(text) ==
  LET o == detectModeOverride(text) IN o.ok /\ o.tier \in Tiers

\* C3: on the model-auto path with a mode override detected, classification
\* is bypassed and no message sent upstream begins with the directive.
C3_PrefixRemovedUpstream ==
  ( pc # "idle" /\ chatReq.model \in AutoModels /\ tier # Null
    /\ hasDirective(extractPromptForClassification(chatReq.messages).prompt) ) =>
    /\ overridden
    /\ \A i \in DOMAIN upstreamCalls :
         \A j \in DOMAIN upstreamCalls[i].messages :
           ~ hasDirective(upstreamCalls[i].messages[j].text)

\* A write that is a chunk with delta.content.
isContent(w) == w.w = "data" /\ w.chunk.object = "chat.completion.chunk"
                /\ w.chunk.delta.kind = "content"

isStreamResponse ==
  res.headersSent /\ getHeader(res, "Content-Type") = "text/event-stream"

\* C5: every streaming response whose headers were sent is closed, and the
\* last thing written before it is closed is data: [DONE].
C5_DoneIsLast ==
  /\ ( isStreamResponse /\ res.writableEnded ) =>
       ( Len(res.body) > 0 /\ Last(res.body) = DoneLine )
  /\ ( isStreamResponse /\ pc = "done" ) => res.writableEnded

\* An Anthropic stream that delivered data ended on a read error, and the
\* response is closed.
C5_Witness ==
  /\ pc = "done"
  /\ isStreamResponse
  /\ currentApi = "anthropic-messages"
  /\ lastError = "terminated"
  /\ Len(res.body) >= 2

\* The primary failed before any header and the fallback's attempt returned.
fallbackSucceeded ==
  /\ pc = "done"
  /\ idx = 2
  /\ Len(failLog) = 1
  /\ ~ failLog[1].headersSent

\* The client got one response, all of it from the model of the loop's
\* current entry.
oneResponseFromCurrent ==
  /\ res.statusLines = << 200 >>
  /\ res.ended = 1
  /\ ~ chatReq.stream => Len(res.body) = 1
  /\ \A i \in DOMAIN res.body :
       /\ res.body[i].w = "completion" => res.body[i].model = namespaced(current.model)
       /\ res.body[i].w = "data" => res.body[i].chunk.model = namespaced(current.model)

userTexts(messages) ==
  LET isUser(m) == m.role = "user"
      users     == SelectSeq(messages, isUser)
  IN  [ i \in DOMAIN users |-> textOf(users[i]) ]

\* C7: a model-auto request whose latest user message begins with a
\* directive is routed to the directive's tier whatever the earlier
\* messages are, and a directive in an earlier message only does not put
\* the request on the override branch.
C7_LatestUserMessageDecides ==
  ( pc # "idle" /\ chatReq.model \in AutoModels /\ tier # Null
    /\ Len(userTexts(chatReq.messages)) > 0 ) =>
    LET latest == Last(userTexts(chatReq.messages)) IN
    IF hasDirective(latest)
      THEN overridden /\ tier = detectModeOverride(latest).tier
      ELSE ~ overridden

\* C8: detectModeOverride(prefix + text) returns the alias's tier and the
\* text unchanged for every alias, letter case, prefix form and separator,
\* and returns no override for a word that is not in the table.
C8_RoundTrip ==
  fnPc = "return" =>
    IF fnArg.word \in Aliases
      THEN fnRet = [ ok |-> TRUE, tier |-> modeMap[fnArg.word],
                     cleanedPrompt |-> fnArg.text ]
      ELSE fnRet = NoOverride

\* The request is one of the malformed ones: no JSON, no model, or messages
\* missing, not an array, or empty.
malformed ==
  /\ pc # "idle"
  /\ \/ chatReq.body # "object"
     \/ chatReq.model = Null
     \/ chatReq.msgKind # "array"
     \/ Len(chatReq.messages) = 0

\* C9: a request with an invalid JSON body, a missing model, or a missing,
\* non-array or empty messages list is answered 400, no stats counter
\* changes and no upstream call is made.
C9_MalformedIs400 ==
  malformed =>
    /\ res.statusLines = << 400 >>
    /\ stats = NewStats
    /\ upstreamCalls = << >>

\* C10: a request whose messages hold no user message is answered 400 and
\* reaches neither classification nor an upstream.
C10_NoUserMessageIs400 ==
  ( pc # "idle" /\ ~ malformed /\ Len(userTexts(chatReq.messages)) = 0 ) =>
    /\ res.statusLines = << 400 >>
    /\ tier = Null
    /\ upstreamCalls = << >>

\* C11: for every messages list that holds a user message, the prompt of
\* the context extractor is non-empty, also when three or more assistant or
\* tool messages follow the user message.
C11_UserMessageGivesPrompt ==
  ( fnPc = "extracted" /\ Len(userTexts(fnArg)) > 0 ) => Len(fnRet.prompt) > 0

\* The tier tables of two configurations are the same.
sameTables(a, b) == a.tiers = b.tiers /\ a.agenticTiers = b.agenticTiers

\* C12: after a reload whose config file fails to parse, the configuration
\* that was active before the reload is still the active one.
C12_FailedReloadKeepsSnapshot ==
  \A i \in DOMAIN adminLog :
    adminLog[i].file = "broken" => sameTables(adminLog[i].after, adminLog[i].before)

\* C13: POST /reload leaves the active configuration as it was, whatever
\* the config file on disk has become.
C13_ReloadKeepsConfig ==
  \A i \in DOMAIN adminLog :
    adminLog[i].op = "/reload" => sameTables(adminLog[i].after, adminLog[i].before)

\* C14: every step of a chat request uses the configuration and the
\* credentials that were current as the request started, also after a
\* reload has completed while the request was suspended: the chain is the
\* one built from that configuration's tables, and a credential lookup made
\* after the reload finds what the credential snapshot of the start holds.
C14_OneSnapshotPerRequest ==
  pc # "idle" =>
    /\ tier \in Tiers =>
          modelsToTry = modelsToTryOf(routedModel, tier, startSnapshot.config)
    /\ \A i \in DOMAIN lookups :
          lookups[i].reloads > startSnapshot.reloads =>
            ( lookups[i].found <=> lookups[i].provider \in startSnapshot.auth )

\* The header the routing decision's tier is sent in.
TierHeader == "X-ClawRouter-Tier"

\* Once the request is taken up, the tier no longer changes, every call of
\* forwardRequest made so far carried it, and the header named h, which
\* carries it, stays as it is.
tierFixed(h) ==
  pc # "idle" =>
    /\ tier' = tier
    /\ \A i \in DOMAIN attempts' : attempts'[i].tier = tier
    /\ tier # Null => getHeader(res, h) = tier
    /\ getHeader(res', h) = getHeader(res, h)

rowModels(table, t) == { table[t].primary } \cup Range(table[t].fallback)

\* The table route() chose for a classified request.
selectedTable ==
  IF selectedAgentic THEN startSnapshot.config.agenticTiers
                     ELSE startSnapshot.config.tiers

\* C16: the chain of a classified request, primary and fallbacks, is made of
\* the models of the tier's row in the table the router selected: the
\* agentic table when it selected that one, the base table otherwise.
C16_ChainFromSelectedTable ==
  ( pc # "idle" /\ classified ) =>
    Range(modelsToTry) = rowModels(selectedTable, tier)

\* No element of a sequence occurs in it twice.
distinct(s) == \A i, j \in DOMAIN s : i # j => s[i] # s[j]

\* The models the request's attempts were made with, in order.
attempted == [ i \in DOMAIN attempts |-> attempts[i].model ]

\* C17: the chain of a routed request is the primary followed by the
\* configured fallbacks of the tier's row, in order, with no model id in it
\* twice, and no model is attempted twice in the request.
C17_NoModelTwice ==
  ( pc # "idle" /\ tier \in Tiers ) =>
    /\ modelsToTry[1] = routedModel
    /\ \A i \in DOMAIN modelsToTry :
         i > 1 => modelsToTry[i] \in Range(startSnapshot.config.tiers[tier].fallback)
    /\ distinct(modelsToTry)
    /\ distinct(attempted)

\* The failures of the request that were timeouts.
timeoutsLogged == { i \in DOMAIN failLog : failLog[i].timeout }

\* C18: every attempt that exceeded its deadline and every stream that
\* stalled is counted in timeouts once; one that happened before the
\* response headers were sent is followed by the next chain entry, and one
\* that happened after streaming began is followed by no fallback, the
\* stream ending with the error event and then data: [DONE].
C18_TimeoutCountedAndHandled ==
  /\ stats.timeouts = Cardinality(timeoutsLogged)
  /\ \A i \in timeoutsLogged :
       ( ~ failLog[i].headersSent /\ hasFurther(failLog[i]) ) => wentOn(failLog[i])
  /\ ( pc = "done" /\ Len(failLog) > 0 /\ Last(failLog).timeout
       /\ Last(failLog).headersSent ) =>
         /\ ~ wentOn(Last(failLog))
         /\ Len(res.body) >= 2
         /\ res.body[Len(res.body) - 1] = ErrorEvent(lastError)
         /\ Last(res.body) = DoneLine

\* Every entry of the chain was attempted and failed before the response
\* headers were sent.
allFailedBeforeHeaders ==
  /\ pc = "done"
  /\ Len(attempts) > 0
  /\ Len(failLog) = Len(modelsToTry)
  /\ \A i \in DOMAIN failLog : ~ failLog[i].headersSent

\* The loop was left by an attempt that returned.
someAttemptSucceeded == pc = "done" /\ Len(attempts) > Len(failLog)

unregistered(m) == parseModelId(m).provider \notin DOMAIN PROVIDERS

\* The attempts made for models of providers the registry holds.
registeredAttempts == { i \in DOMAIN attempts : ~ unregistered(attempts[i].model) }

\* C20: an attempt for a model whose provider prefix is not in the registry
\* fails before the response headers are sent and no upstream call is made
\* for it; a request whose only chain entry is such a model ends with one
\* error response and no upstream call at all.
C20_UnregisteredNeverCalled ==
  /\ \A i \in DOMAIN attempts :
       unregistered(attempts[i].model) =>
         /\ i \in DOMAIN failLog
         /\ failLog[i].model = attempts[i].model
         /\ ~ failLog[i].headersSent
  /\ Len(upstreamCalls) <= Cardinality(registeredAttempts)
  /\ ( pc = "done" /\ Len(modelsToTry) = 1 /\ unregistered(modelsToTry[1]) ) =>
       /\ upstreamCalls = << >>
       /\ res.statusLines = << 502 >>
       /\ res.ended = 1
       /\ Len(res.body) = 1
       /\ res.body[1].w = "error_json"

\* A request that names a model of an unregistered provider, for which the
\* credential file holds a key, has been answered 502 with no upstream call.
C20_Witness ==
  /\ pc = "done"
  /\ modelsToTry = << Gpt4o >>
  /\ "openai" \in authFile
  /\ Len(attempts) = 1
  /\ lastError = "Unsupported provider"
  /\ res.statusLines = << 502 >>
  /\ upstreamCalls = << >>

\* C21: a model-auto request that ends before a routing decision is made,
\* by a failure raised while it is classified or routed included, is
\* answered 400, never with a 5xx status.
C21_RoutingErrorIs400 ==
  ( pc = "done" /\ chatReq.body = "object" /\ chatReq.model \in AutoModels
    /\ tier = Null ) =>
    res.statusLines = << 400 >>

\* Every tier has a row with a primary in a tier table.
everyTierHasPrimary(table) ==
  \A t \in Tiers : t \in DOMAIN table /\ table[t].primary # Null

\* C22: after startup and after every reload, every tier of the active base
\* table and of the active agentic table has a non-null primary.
C22_EveryTierHasPrimary ==
  /\ everyTierHasPrimary(getRoutingConfig.tiers)
  /\ everyTierHasPrimary(getRoutingConfig.agenticTiers)

\* The input is over the large-context limit.
exceedsLimit(a, systemPrompt) ==
  estimateTokens(totalLength(a.prompt, systemPrompt)) > a.overrides.maxTokensForceComplex

\* The tier the classifier's result stands for before any upgrade.
classifiedTierOf(a) ==
  IF a.ruleResult.tier = Null THEN a.overrides.ambiguousDefaultTier
                              ELSE a.ruleResult.tier

C24_StructuredAtLeastMinTier ==
  ( fnPc = "routed" /\ testStructured(fnArg.prompt) ) =>
    /\ tierRank[fnRet.tier] >= tierRank[fnArg.overrides.structuredOutputMinTier]
    /\ ~ exceedsLimit(fnArg, fnArg.systemPrompt) =>
         tierRank[fnRet.tier] >= tierRank[classifiedTierOf(fnArg)]

\* C25: every decision selectModel builds from token counts and prices that
\* are not negative has a savings figure between 0 and 1, equal to
\* max(0, (baseline - estimate) / baseline), and 0 when the baseline is 0.
C25_SavingsInUnitInterval ==
  fnPc = "selected" =>
    /\ fnRet.savings.k = "fin"
    /\ 0 <= fnRet.savings.num /\ fnRet.savings.num <= fnRet.savings.den
    /\ fnRet.baselineCost = Num(0) => fnRet.savings.num = 0
    /\ positive(fnRet.baselineCost) =>
         fnRet.savings = mathMax0(over(minus(fnRet.baselineCost, fnRet.costEstimate),
                                       fnRet.baselineCost))

isToolStart(line) == line.type = "content_block_start" /\ line.block = "tool_use"
isJsonDelta(line) == line.type = "content_block_delta" /\ line.dtype = "input_json_delta"

\* The received lines that belong to tool calls, each with its position.
toolLines ==
  SelectSeq([ i \in DOMAIN received |-> [ i |-> i, line |-> received[i] ] ],
            LAMBDA e : isToolStart(e.line) \/ isJsonDelta(e.line))

\* How many tool_use blocks have started among the first i received lines.
toolBlocksBy(i) == Cardinality({ j \in 1 .. i : isToolStart(received[j]) })

\* The tool_calls deltas a stream is to produce: for the k-th block start
\* (from 0) the index k with the block's id and name and empty arguments,
\* and for each input_json_delta of the block, which the upstream sends
\* between the block's start and its stop, the index k with the fragment.
expectedToolCalls ==
  [ n \in DOMAIN toolLines |->
      LET e == toolLines[n]
          k == toolBlocksBy(e.i) - 1
      IN IF isToolStart(e.line)
           THEN [ kind |-> "tool_calls", index |-> k, id |-> e.line.id,
                  type |-> "function", name |-> e.line.name, arguments |-> "" ]
           ELSE [ kind |-> "tool_calls", index |-> k, id |-> Null, type |-> Null,
                  name |-> Null, arguments |-> e.line.partial_json ] ]

isToolCalls(w) == w.w = "data" /\ w.chunk.object = "chat.completion.chunk"
                  /\ w.chunk.delta.kind = "tool_calls"

\* The tool_calls deltas written to the client, in the order written.
emittedToolCalls ==
  LET ws == SelectSeq(res.body, isToolCalls)
  IN [ n \in DOMAIN ws |-> ws[n].chunk.delta ]

\* C26: in an Anthropic stream the k-th tool_use block start (from 0) is
\* written as a tool_calls chunk with index k, the block's id and name and
\* arguments "", every input_json_delta of the block is written with the
\* same index in arrival order with its partial_json as the fragment, and
\* nothing else is written as a tool call: indices neither repeat nor skip.
C26_ToolCallIndices ==
  pc \in { "read", "done" } => emittedToolCalls = expectedToolCalls

\* Two tool calls were streamed, the second with both fragments.
C26_Witness ==
  /\ pc = "read"
  /\ received = << BlockStart("tool_use"), BlockStop, ToolStart2,
                   JsonDelta("{\"city\":"), JsonDelta("\"Oslo\"}") >>
  /\ Len(emittedToolCalls) = 4
  /\ emittedToolCalls[4].index = 1

\* The positions of the message_delta lines that carry a stop_reason.
stopReasonsSeen(i) ==
  { j \in 1 .. i : received[j].type = "message_delta"
                    /\ received[j].stop_reason # Null }

\* The last stop_reason observed among the first i received lines.
lastStopReason(i) ==
  IF stopReasonsSeen(i) = { } THEN Null
  ELSE received[CHOOSE j \in stopReasonsSeen(i) :
                  \A h \in stopReasonsSeen(i) : h <= j].stop_reason

isFinal(w) == w.w = "data" /\ w.chunk.object = "chat.completion.chunk"
              /\ w.chunk.delta.kind = "empty"

\* C27: the final chunk written at message_stop has finish_reason tool_calls
\* exactly when the last stop_reason observed in the stream's message_delta
\* lines is tool_use, and stop otherwise; a message_delta without a
\* stop_reason leaves the one observed before it in place.
C27_FinishFromLastStopReason ==
  ( pc = "read" /\ Len(received) > 0 /\ Last(received) = MessageStop ) =>
    /\ Len(res.body) > 0 /\ isFinal(Last(res.body))
    /\ Last(res.body).chunk.finish_reason =
         IF lastStopReason(Len(received)) = "tool_use" THEN "tool_calls" ELSE "stop"

\* The messages of the call that are neither system nor developer messages.
convInput == SelectSeq(fnArg, LAMBDA m : ~ isSystem(m))

isTool(m) == m.role = "tool"

\* Where the run of consecutive tool messages that holds position i starts.
runStart(i) ==
  CHOOSE s \in 1 .. i :
    /\ \A j \in s .. i : isTool(convInput[j])
    /\ s = 1 \/ ~ isTool(convInput[s - 1])

\* The place in the output of the message at position i: one output for
\* every assistant or user message, one for every run of tool messages.
outIndex(i) ==
  Cardinality({ j \in 1 .. i :
     ~ isTool(convInput[j]) \/ j = 1 \/ ~ isTool(convInput[j - 1]) })

isToolResults(m) == m.role = "user" /\ m.kind = "tool_results"

RECURSIVE resultCount(_)
resultCount(ms) ==
  IF Len(ms) = 0 THEN 0 ELSE Len(Head(ms).results) + resultCount(Tail(ms))

\* C28: in the list convertMessagesToAnthropic returns, consecutive tool
\* messages are one user message of tool_result blocks: no two adjacent
\* messages are both made of tool_result blocks only, there are as many
\* tool_result blocks as tool messages, each tool message's block stands in
\* the message of its own run at its place in the run, and blocks of tool
\* messages that an assistant or user message separates are in different
\* messages.
C28_ToolResultsCoalesced ==
  fnPc = "converted" =>
    LET out == fnRet.messages IN
    /\ \A i \in 1 .. (Len(out) - 1) :
         ~ ( isToolResults(out[i]) /\ isToolResults(out[i + 1]) )
    /\ resultCount(out) = Len(SelectSeq(convInput, isTool))
    /\ Len(out) = outIndex(Len(convInput))
    /\ \A i \in DOMAIN convInput :
         IF isTool(convInput[i])
           THEN /\ isToolResults(out[outIndex(i)])
                /\ Len(out[outIndex(i)].results) >= i - runStart(i) + 1
                /\ out[outIndex(i)].results[i - runStart(i) + 1]
                     = toolResultOf(convInput[i])
           ELSE ~ isToolResults(out[outIndex(i)])

\* Two tool results in a row, an assistant turn, and a third tool result:
\* two blocks in the first message, one in the third.
C28_Witness ==
  /\ fnPc = "converted"
  /\ fnArg = << ToolMsg("call_1", T_hi), ToolMsg("call_2", T_go), ToolCallsMsg,
                ToolMsg("call_1", T_hi) >>
  /\ Len(fnRet.messages) = 3
  /\ Len(fnRet.messages[1].results) = 2
  /\ Len(fnRet.messages[3].results) = 1

C30_OpenAIBodyCarriesTools ==
  ( fnPc = "sent" /\ fnArg.target.api = "openai-completions" ) =>
    /\ fnRet.messages = fnArg.req.messages
    /\ opt(fnArg.req, "tools").defined =>
         ( fnRet.tools.defined /\ fnRet.tools.v = fnArg.req["tools"] )
    /\ opt(fnArg.req, "tool_choice").defined =>
         ( fnRet.tool_choice.defined /\ fnRet.tool_choice.v = fnArg.req["tool_choice"] )

\* The model field of a write that is a JSON completion or a streamed chunk.
modelFieldOf(w) == IF w.w = "completion" THEN w.model ELSE w.chunk.model

\* The namespaced names of the models of the request's chain.
namespacedChain ==
  { namespaced(parseModelId(modelsToTry[i]).model) : i \in DOMAIN modelsToTry }

\* C31: every JSON completion and every streamed chunk written to the client
\* has a model field, and it is the namespaced name of the model the request
\* was routed to, also when the upstream's object has no model field.
C31_ModelAlwaysNamespaced ==
  \A i \in DOMAIN res.body :
    res.body[i].w \in { "completion", "data" } =>
      /\ modelFieldOf(res.body[i]) # NoModelField
      /\ modelFieldOf(res.body[i]) \in namespacedChain

\* How many times data: [DONE] was written to the response.
doneCount == Cardinality({ i \in DOMAIN res.body : res.body[i] = DoneLine })

\* C32: a streamed response of the OpenAI pass-through holds the data: [DONE]
\* terminator exactly once: the pass-through adds it at the end of the
\* stream only if the upstream did not send it.
C32_DoneExactlyOnce ==
  ( pc = "done" /\ isStreamResponse /\ currentApi = "openai-completions" ) =>
    doneCount = 1

\* The calls of the log that read the cache, and the reloads.
readsCache(e) == e.op = "getAuth" /\ e.source = "profiles"
isReload(e)   == e.op = "reloadAuth"

\* No reload lies between positions i and j of the log.
sameEpoch(i, j) == \A h \in i .. j : ~ isReload(fnRet[h])

\* The first call that read the cache in the epoch of position j.
firstRead(j) ==
  CHOOSE i \in 1 .. j :
    /\ readsCache(fnRet[i]) /\ sameEpoch(i, j)
    /\ \A h \in 1 .. (i - 1) : ~ ( readsCache(fnRet[h]) /\ sameEpoch(h, j) )

MaxStatRequests == 3

\* What routing decides for a request: tier and model.  The last one is an
\* explicit request whose model is "__proto__".
StatDecisions ==
  { [ tier |-> "SIMPLE",   model |-> Kimi ],
    [ tier |-> "MEDIUM",   model |-> Sonnet ],
    [ tier |-> "EXPLICIT", model |-> Sonnet ],
    [ tier |-> "EXPLICIT", model |-> ProtoKey ] }

StatIds == 1 .. MaxStatRequests

statFrame ==
  UNCHANGED << pc, chatReq, tier, routedModel, reasoning, modelsToTry, idx,
               lastError, res, authProfiles, upstreamCalls, failLog, tr, upOpen,
               reads, received, maxReads, startSnapshot, lookups, attempts,
               fnArg, fnPc, cfgVars >>

InitStats ==
  /\ InitServer
  /\ configFile = "none"
  /\ authFile = { "anthropic", "kimi-coding" }
  /\ fnArg \in [ StatIds -> StatDecisions ]
  /\ fnRet = [ i \in StatIds |-> "new" ]
  /\ fnPc = "stats"

\* A request answered 400 before the decision: no counter moves.
StatReject ==
  \E i \in StatIds :
    /\ fnRet[i] = "new"
    /\ fnRet' = [ fnRet EXCEPT ![i] = "rejected" ]
    /\ UNCHANGED stats
    /\ statFrame

\* The decision of request i: the three increments, then the first await.
StatAccept ==
  \E i \in StatIds :
    /\ fnRet[i] = "new"
    /\ stats' = countRequest(stats, fnArg[i].tier, fnArg[i].model)
    /\ fnRet' = [ fnRet EXCEPT ![i] = "first" ]
    /\ statFrame

\* forwardRequest of request i returns: success, no counter moves.
StatSucceed ==
  \E i \in StatIds :
    /\ fnRet[i] \in { "first", "fallback" }
    /\ fnRet' = [ fnRet EXCEPT ![i] = "done" ]
    /\ UNCHANGED stats
    /\ statFrame

\* forwardRequest of request i throws: the catch counts a timeout, and
\* either the next entry is tried or the loop is left and the error counted.
StatCaught ==
  \E i \in StatIds, timeout \in BOOLEAN, goesOn \in BOOLEAN :
    LET counted == IF timeout THEN countTimeout(stats) ELSE stats
    IN  /\ fnRet[i] \in { "first", "fallback" }
        /\ goesOn => fnRet[i] = "first"
        /\ IF goesOn
             THEN /\ stats' = counted
                  /\ fnRet' = [ fnRet EXCEPT ![i] = "fallback" ]
             ELSE /\ stats' = countError(counted)
                  /\ fnRet' = [ fnRet EXCEPT ![i] = "done" ]
        /\ statFrame

NextStats == StatReject \/ StatAccept \/ StatSucceed \/ StatCaught

SpecStats == InitStats /\ [][NextStats]_vars

RECURSIVE sumOf(_, _)
\* The sum of the counts f holds for the keys of S.
sumOf(f, S) ==
  IF S = { } THEN 0
  ELSE LET k == CHOOSE x \in S : TRUE IN f[k] + sumOf(f, S \ { k })

\* The requests of SpecStats that passed the decision.
statAccepted == { i \in StatIds : fnRet[i] \in { "first", "fallback", "done" } }

\* C34: with any number of requests in flight, requests is the sum of the
\* per-tier counts (EXPLICIT included) and the sum of the per-model counts,
\* errors is at most requests, and each accepted request counts once.
C34_StatsConsistent ==
  fnPc = "stats" =>
    /\ stats.requests = sumOf(stats.byTier, DOMAIN stats.byTier)
    /\ stats.requests = sumOf(stats.byModel, DOMAIN stats.byModel)
    /\ stats.errors <= stats.requests
    /\ stats.requests = Cardinality(statAccepted)

\* C34, side check: all of it but the per-model sum.
C34_AllButByModel ==
  fnPc = "stats" =>
    /\ stats.requests = sumOf(stats.byTier, DOMAIN stats.byTier)
    /\ stats.errors <= stats.requests
    /\ stats.requests = Cardinality(statAccepted)
    /\ ( \A i \in statAccepted : fnArg[i].model # ProtoKey )
         => stats.requests = sumOf(stats.byModel, DOMAIN stats.byModel)

\* The text of the last user message of the whole list, "" if there is none.
lastUserTextOf(messages) ==
  LET isUser(m) == m.role = "user"
      users     == SelectSeq(messages, isUser)
  IN  IF Len(users) = 0 THEN << >> ELSE textOf(users[Len(users)])

\* s ends with suf.
endsWith(s, suf) ==
  /\ Len(suf) <= Len(s)
  /\ SubSeq(s, Len(s) - Len(suf) + 1, Len(s)) = suf

\* The messages after the last user message that are not system messages.
afterLastUser(messages) ==
  LET isUser(m) == m.role = "user"
      at        == { i \in DOMAIN messages : isUser(messages[i]) }
      last      == CHOOSE i \in at : \A j \in at : j <= i
      rest      == SubSeq(messages, last + 1, Len(messages))
      keep(m)   == ~ isSystem(m)
  IN  SelectSeq(rest, keep)

hasUser(messages) == \E i \in DOMAIN messages : messages[i].role = "user"

\* The claim's statement about one extraction.
endsWithLastUser(messages, prompt) ==
  LET last == lastUserTextOf(messages)
      conv == conversationMsgs(messages)
  IN  /\ endsWith(prompt, last)
      /\ Len(prompt) <= Len(last) + (Len(conv) - 1) * (ContextCut + 1)

\* C35: for every messages list with a user message, the classification
\* input ends with the whole text of the conversation's last user message,
\* and every other message adds at most 500 characters (and a newline).
C35_EndsWithLastUserMessage ==
  ( fnPc = "extracted" /\ hasUser(fnArg) )
    => endsWithLastUser(fnArg, fnRet.prompt)

\* C35, side check: the statement for the lists whose last user message is
\* among the last contextWindow conversation messages.
C35_WithinWindow ==
  ( fnPc = "extracted" /\ hasUser(fnArg)
    /\ Len(afterLastUser(fnArg)) < contextWindow )
    => endsWithLastUser(fnArg, fnRet.prompt)

\* n >= 1, for a number that is not NaN.
atLeastOne(n) == n.k = "inf" \/ (n.k = "fin" /\ n.v >= 1)

\* The claim's statement about one Anthropic body.
maxTokensAsClaimed(req, body) ==
  LET caller == callerMaxTokens(req)
      sent   == body.max_tokens.v
  IN  IF body.thinking.type = "enabled"
        THEN /\ sent = plus(caller, Num(body.thinking.budget_tokens))
             /\ atLeastOne(caller)
                  => ( sent.k = "fin" /\ body.thinking.budget_tokens < sent.v )
        ELSE sent = caller

\* C36: an Anthropic body with enabled thinking is sent with max_tokens =
\* the caller's max_tokens (4096 if absent) + budget_tokens, so that
\* budget_tokens < max_tokens when the caller's is at least 1; without
\* enabled thinking max_tokens is the caller's.
C36_MaxTokensRaisedByBudget ==
  ( fnPc = "sent" /\ fnArg.target.api = "anthropic-messages" )
    => maxTokensAsClaimed(fnArg.req, fnRet)

\* C36, side check: the statement for a caller's max_tokens that is finite.
C36_FiniteMaxTokens ==
  ( fnPc = "sent" /\ fnArg.target.api = "anthropic-messages"
    /\ callerMaxTokens(fnArg.req).k = "fin" )
    => maxTokensAsClaimed(fnArg.req, fnRet)

\* C36, side check: a MEDIUM request with max_tokens 1 is sent with 4097.
C36_RaisedReached ==
  ~ ( fnPc = "sent" /\ fnArg.target.api = "anthropic-messages"
      /\ fnRet.thinking.type = "enabled"
      /\ callerMaxTokens(fnArg.req) = Num(1)
      /\ fnRet.max_tokens.v = Num(1 + ThinkingBudget) )

\* C37: for every accepted chat request, on every path, the response
\* headers are written once, the response is ended once, and nothing is
\* written to it after it is ended.
C37_ResponseWrittenAndEndedOnce ==
  tier # Null =>
    /\ Len(res.statusLines) <= 1
    /\ res.ended <= 1
    /\ res.lateWrites = 0
    /\ pc = "done" => ( Len(res.statusLines) = 1 /\ res.ended = 1 )

\* C37, reached: a request whose attempt failed after the stream had begun
\* is done, with one status line and one end.
C37_Witness ==
  /\ pc = "done"
  /\ tier # Null
  /\ \E i \in DOMAIN failLog : failLog[i].headersSent
  /\ Len(res.statusLines) = 1
  /\ res.ended = 1
  /\ res.lateWrites = 0

\* ------------------------------------- the read loop of forwardToAnthropic

\* The upstream body as bytes.  "P" stands for the bytes of `data: `, "\n"
\* for the newline, "c1" "c2" for the two bytes of one character ("e" with
\* an accent), and the other bytes for pieces of a payload: "K" a
\* content_block_start of a thinking block, "B" a content_block_stop, "T1"
\* "T2" the two halves of a text delta (the accented character may stand
\* between them), "M" a message_delta with stop_reason tool_use, "S" a
\* message_stop, "?" bytes that are no JSON, "E" an `event: ...` line.
MaxSplitLines == 3

AccentText == "answer text with an accent"
\* The text of a delta whose two bytes of the accented character were each
\* decoded on their own.
BrokenText == "answer text with two replacement characters"

ByteLines ==
  { << "P", "K", "\n" >>, << "P", "B", "\n" >>,
    << "P", "T1", "T2", "\n" >>, << "P", "T1", "c1", "c2", "T2", "\n" >>,
    << "P", "M", "\n" >>, << "P", "S", "\n" >>,
    << "P", "?", "\n" >>, << "E", "\n" >> }

UnparseableBytes == << "P", "?", "\n" >>

RECURSIVE concat(_)
concat(seqs) == IF Len(seqs) = 0 THEN << >> ELSE Head(seqs) \o concat(Tail(seqs))

\* An upstream: some lines, the last of them with or without its newline.
Upstreams == [ lines : SeqsUpTo(ByteLines, MaxSplitLines), cut : BOOLEAN ]

upstreamBytes(u) ==
  LET all == concat(u.lines)
  IN  IF u.cut /\ Len(all) > 0 THEN SubSeq(all, 1, Len(all) - 1) ELSE all

RECURSIVE decodeStream(_, _, _)
\* decoder.decode(value, {stream: true}): the characters of the bytes, the
\* first byte of a character kept back until the second arrives.  pending
\* is what the decoder holds from the read before.
decodeStream(pending, bytes, out) ==
  IF Len(bytes) = 0 THEN [ chars |-> out, pending |-> pending ]
  ELSE LET b == Head(bytes) IN
       IF pending = << "c1" >>
         THEN IF b = "c2" THEN decodeStream(<< >>, Tail(bytes), Append(out, "accent"))
              ELSE decodeStream(<< >>, bytes, Append(out, "replacement"))
       ELSE IF b = "c1" THEN decodeStream(<< "c1" >>, Tail(bytes), out)
       ELSE IF b = "c2" THEN decodeStream(<< >>, Tail(bytes), Append(out, "replacement"))
       ELSE decodeStream(<< >>, Tail(bytes), Append(out, b))

RECURSIVE splitNewline(_)
\* text.split("\n"): the stretches between the newlines, one more than
\* there are newlines.
splitNewline(text) ==
  LET at == { i \in DOMAIN text : text[i] = "\n" }
  IN  IF at = { } THEN << text >>
      ELSE LET i == CHOOSE j \in at : \A k \in at : j <= k
           IN  << SubSeq(text, 1, i - 1) >> \o splitNewline(SubSeq(text, i + 1, Len(text)))

\* A loop that forgets the unfinished line of a read.
bufferAfter_dropped(lines) == << >>

\* buffer = lines.pop() ?? "".
bufferAfter(lines) == lines[Len(lines)]

\* One line of text as the loop reads it: skipped unless it starts with
\* `data: ` and has a payload, unparseable unless the payload is JSON.
parseLine(line) ==
  IF Len(line) = 0 \/ Head(line) # "P" THEN SkippedLine
  ELSE LET jsonStr == Tail(line) IN
       CASE jsonStr = << >>                             -> SkippedLine
         [] jsonStr = << "K" >>                         -> BlockStart("thinking")
         [] jsonStr = << "B" >>                         -> BlockStop
         [] jsonStr = << "T1", "T2" >>                  -> TextDelta(AnswerText)
         [] jsonStr = << "T1", "accent", "T2" >>        -> TextDelta(AccentText)
         [] jsonStr = << "T1", "replacement", "replacement", "T2" >>
                                                        -> TextDelta(BrokenText)
         [] jsonStr = << "M" >>                         -> MessageDelta("tool_use")
         [] jsonStr = << "S" >>                         -> MessageStop
         [] OTHER                                       -> UnparseableLine

RECURSIVE translateLines(_, _, _)
\* for (const line of lines) { ... }
translateLines(t, r, lines) ==
  IF Len(lines) = 0 THEN [ tr |-> t, res |-> r ]
  ELSE LET after == translateAnthropic(t, r, parseLine(Head(lines)), BareHaiku)
       IN  translateLines(after.tr, after.res, Tail(lines))

\* The loop's locals as the stream starts, 200 written; pos and nreads
\* count the bytes and the reads so far.
NewReader ==
  [ pos |-> 0, nreads |-> 0, buffer |-> << >>, pending |-> << >>,
    tr |-> NewTranslator,
    res |-> writeHead(NewResponse, 200, "text/event-stream") ]

\* One turn of the while loop for a read that gave value.
readChunk(s, value) ==
  LET decoded == decodeStream(s.pending, value, << >>)
      lines   == splitNewline(s.buffer \o decoded.chars)
      after   == translateLines(s.tr, s.res, SubSeq(lines, 1, Len(lines) - 1))
  IN  [ pos |-> s.pos + Len(value), nreads |-> s.nreads + 1,
        buffer |-> bufferAfter(lines),
        pending |-> decoded.pending, tr |-> after.tr, res |-> after.res ]

InitSplit ==
  /\ InitServer
  /\ configFile = "none"
  /\ authFile = { "anthropic", "kimi-coding" }
  /\ fnArg \in Upstreams
  /\ fnRet = NewReader
  /\ fnPc = "reading"

\* reader.read() gives the next bytes of the upstream, as many as the
\* network delivers at once.
SplitRead ==
  /\ fnPc = "reading"
  /\ \E n \in 1 .. Len(upstreamBytes(fnArg)) - fnRet.pos :
       fnRet' = readChunk(fnRet, SubSeq(upstreamBytes(fnArg), fnRet.pos + 1, fnRet.pos + n))
  /\ UNCHANGED << fnArg, fnPc, reqVars, cfgVars >>

\* reader.read() gives done: the loop is left and the finally runs.
SplitDone ==
  /\ fnPc = "reading"
  /\ fnRet.pos = Len(upstreamBytes(fnArg))
  /\ fnRet' = [ fnRet EXCEPT !.res = finallyAnthropic(@) ]
  /\ fnPc' = "closed"
  /\ UNCHANGED << fnArg, reqVars, cfgVars >>

NextSplit == SplitRead \/ SplitDone

SpecSplit == InitSplit /\ [][NextSplit]_vars

\* The upstream without its unparseable lines.
withoutUnparseable(u) ==
  LET keep(l) == l # UnparseableBytes
  IN  [ lines |-> SelectSeq(u.lines, keep),
        cut   |-> u.cut /\ Len(u.lines) > 0 /\ keep(u.lines[Len(u.lines)]) ]

\* C38: whatever the reads the upstream bytes arrive in, the translator is
\* where one read of all the bytes so far would have put it: the same
\* chunks written, the same locals, the same unfinished line; and the
\* chunks and locals are those of the upstream without its unparseable
\* lines.
C38_ReadsDoNotMatter ==
  fnPc \in { "reading", "closed" } =>
    LET sofar  == SubSeq(upstreamBytes(fnArg), 1, fnRet.pos)
        whole  == [ readChunk(NewReader, sofar) EXCEPT !.nreads = fnRet.nreads ]
        closed == [ whole EXCEPT !.res = finallyAnthropic(@) ]
        clean  == readChunk(NewReader, upstreamBytes(withoutUnparseable(fnArg)))
    IN  /\ fnPc = "reading" => fnRet = whole
        /\ fnPc = "closed"  => fnRet = closed
        /\ fnPc = "closed"  =>
             /\ fnRet.tr = clean.tr
             /\ fnRet.res = finallyAnthropic(clean.res)

\* C38, reached: a stream is closed that arrived one byte a read, every
\* line and the two-byte character of its text delta split, and the text
\* was written whole.
C38_Witness ==
  /\ fnPc = "closed"
  /\ fnArg.lines = << << "P", "T1", "c1", "c2", "T2", "\n" >>,
                      UnparseableBytes, << "P", "S", "\n" >> >>
  /\ ~ fnArg.cut
  /\ fnRet.nreads = Len(upstreamBytes(fnArg))
  /\ Len(fnRet.res.body) = 3
  /\ fnRet.res.body[1].chunk.delta.content = AccentText

====
